---- MODULE Spec2Model ----
(***************************************************************************)
(* A model of the ch8emu CHIP-8 interpreter: the Cpu (src/src/cpu.rs), the *)
(* Screen it draws to and reads keys from (src/src/screen.rs), and the     *)
(* operations a driver performs on them.                                   *)
(*                                                                         *)
(* Time is counted in units of 1/3 ms, so that both the 16 ms threshold of *)
(* update_timers (48 units) and the 1/60 s quantum (50 units) are whole.   *)
(***************************************************************************)
EXTENDS Integers, Sequences, FiniteSets, TLC

(***************************************************************************)
(* Program constants.                                                      *)
(***************************************************************************)
START_PGM == 512
START_FONT == 80
RAM_SIZE == 4096
NUM_REGS == 16
NUM_KEYS == 16
SCREEN_WIDTH == 64
SCREEN_HEIGHT == 32
PIXEL_SHUTDOWN_FACTOR == 80
TIMER_MILLIS == 16
U8 == 256
U16 == 65536

(***************************************************************************)
(* Bounds of the model.                                                    *)
(***************************************************************************)
\* the driver stops after this many calls of step
MaxSteps == 4
\* the driver stops calling update_timers once the clock has passed this
MaxClock == 60
\* the roms that are loaded whole, byte by byte, have at most this many bytes
MaxRomLen == 4
\* the driver stops after this many calls of Screen::update
MaxUpdates == 2

\* how far the stack pointer may go in a run of nested calls
MaxStack == 84

(***************************************************************************)
(* Option<u8>: None is the empty sequence, Some(k) the sequence <<k>>.     *)
(***************************************************************************)
None == << >>
Some(k) == << k >>
IsSome(o) == Len(o) = 1
Unwrap(o) == o[1]

(***************************************************************************)
(* Bit operations on 16-bit naturals, bit by bit.                          *)
(***************************************************************************)
Pow2(n) ==
    << 1, 2, 4, 8, 16, 32, 64, 128, 256, 512, 1024, 2048, 4096, 8192, 16384,
       32768, 65536 >>[n + 1]

Bit(a, i) == (a \div Pow2(i)) % 2

\* the number whose bit i is b[i], for the 16 bits of a u16
FromBits(b) ==
    b[0] + 2 * b[1] + 4 * b[2] + 8 * b[3] + 16 * b[4] + 32 * b[5] + 64 * b[6]
    + 128 * b[7] + 256 * b[8] + 512 * b[9] + 1024 * b[10] + 2048 * b[11]
    + 4096 * b[12] + 8192 * b[13] + 16384 * b[14] + 32768 * b[15]

BitAnd(a, b) == FromBits([i \in 0 .. 15 |-> IF Bit(a, i) = 1 /\ Bit(b, i) = 1 THEN 1 ELSE 0])

BitOr(a, b) == FromBits([i \in 0 .. 15 |-> IF Bit(a, i) = 1 \/ Bit(b, i) = 1 THEN 1 ELSE 0])

BitXor(a, b) == FromBits([i \in 0 .. 15 |-> IF Bit(a, i) # Bit(b, i) THEN 1 ELSE 0])

Shr(a, n) == a \div Pow2(n)

\* u8 arithmetic
WrappingAdd8(a, b) == (a + b) % U8
WrappingSub8(a, b) == (a - b + U8) % U8
Shl8(a, n) == (a * Pow2(n)) % U8
\* u16 arithmetic
WrappingAdd16(a, b) == (a + b) % U16

\* Duration::from_millis, in the model's time unit of 1/3 ms
from_millis(ms) == ms * 3

(***************************************************************************)
(* The built-in fontset: 16 glyphs of 5 bytes.                             *)
(***************************************************************************)
fontset ==
    << 240, 144, 144, 144, 240,
        32,  96,  32,  32, 112,
       240,  16, 240, 128, 240,
       240,  16, 240,  16, 240,
       144, 144, 240,  16,  16,
       240, 128, 240,  16, 240,
       240, 128, 240, 144, 240,
       240,  16,  32,  64,  64,
       240, 144, 240, 144, 240,
       240, 144, 240,  16, 240,
       240, 144, 240, 144, 144,
       224, 144, 224, 144, 224,
       240, 128, 128, 128, 240,
       224, 144, 144, 144, 224,
       240, 128, 240, 128, 240,
       240, 128, 240, 128, 128 >>

(***************************************************************************)
(* State.                                                                  *)
(*   cpu      the Cpu struct                                               *)
(*   screen   the Screen struct (pixels, shutdown_pixels, keypad)          *)
(*   clock    the last value Instant::now() returned                       *)
(*   build    whether integer overflow is checked (debug) or wraps         *)
(*   status   where the process is: "new", "running", "panicked", "exited" *)
(*   hist     the operation that led to this state and the state before it *)
(*   hist2    the operation before that one                                *)
(*   calls    the calls entered and not yet returned from                  *)
(*   nsteps, nupdates   how many step / Screen::update calls were made     *)
(*   frame    the locals of main (ipf, draw), where its loop is, and what   *)
(*            it has called since the frame began                          *)
(***************************************************************************)
VARIABLES cpu, screen, clock, build, status, hist, hist2, calls, nsteps, nupdates,
          frame

vars == << cpu, screen, clock, build, status, hist, hist2, calls, nsteps, nupdates,
          frame >>

\* Cpu::new
CpuNew(now) ==
    [ pc |-> START_PGM,
      sp |-> 0,
      index |-> 0,
      v_reg |-> [i \in 0 .. NUM_REGS - 1 |-> 0],
      delay_timer |-> 0,
      sound_timer |-> 0,
      ram |-> [a \in 0 .. RAM_SIZE - 1 |-> 0],
      time |-> now,
      last_key |-> None,
      has_drawn |-> FALSE ]

\* Screen::new
ScreenNew ==
    [ pixels |-> [i \in 0 .. SCREEN_WIDTH * SCREEN_HEIGHT - 1 |-> 0],
      shutdown_pixels |-> [i \in 0 .. SCREEN_WIDTH * SCREEN_HEIGHT - 1 |-> 0],
      keypad |-> [k \in 0 .. NUM_KEYS - 1 |-> FALSE] ]


(***************************************************************************)
(* Screen (src/src/screen.rs).                                             *)
(***************************************************************************)
\* Screen::clear
clear(s) == [s EXCEPT !.pixels = [i \in 0 .. SCREEN_WIDTH * SCREEN_HEIGHT - 1 |-> 0]]

\* draw_pixel that sets the pixel (OR) where the code flips it (XOR)
draw_pixel_or(s, x, y, bit) ==
    LET i == y * 64 + x
        prev == s.pixels[i]
        s1 == IF prev = 1 /\ bit = 1
              THEN [s EXCEPT !.shutdown_pixels[i] = 255]
              ELSE s
    IN  [ screen |-> [s1 EXCEPT !.pixels[i] = BitOr(prev, bit)],
          prev |-> prev ]

\* Screen::draw_pixel: the screen after the call and the value returned
draw_pixel(s, x, y, bit) ==
    LET i == y * 64 + x
        prev == s.pixels[i]
        s1 == IF prev = 1 /\ bit = 1
              THEN [s EXCEPT !.shutdown_pixels[i] = 255]
              ELSE s
    IN  [ screen |-> [s1 EXCEPT !.pixels[i] = BitXor(prev, bit)],
          prev |-> prev ]

\* Screen::is_key_pressed; the caller has checked key_value < NUM_KEYS
is_key_pressed(s, key_value) == s.keypad[key_value]

\* the scan run from the top: it returns the highest-numbered key that is down
key_scan_highest(s, i) ==
    IF \E k \in i .. NUM_KEYS - 1 : s.keypad[k]
    THEN Some(CHOOSE k \in i .. NUM_KEYS - 1 :
                 s.keypad[k] /\ \A j \in i .. NUM_KEYS - 1 : s.keypad[j] => j <= k)
    ELSE None

\* the loop of Screen::get_key_pressed, from key i on
RECURSIVE key_scan(_, _)
key_scan(s, i) ==
    IF i >= 16 THEN None
    ELSE IF s.keypad[i] THEN Some(i)
    ELSE key_scan(s, i + 1)

\* Screen::get_key_pressed
get_key_pressed(s) == key_scan(s, 0)

(***************************************************************************)
(* Cpu::step (src/src/cpu.rs).  Every arm of the match yields the Cpu and  *)
(* the Screen after it and whether it completed: ok is FALSE when the arm  *)
(* panics (an index out of bounds, unwrap of None, or, in a build with     *)
(* overflow checks, an arithmetic overflow), which aborts the process.     *)
(***************************************************************************)
Ok(c, s) == [cpu |-> c, screen |-> s, ok |-> TRUE]
Panic(c, s) == [cpu |-> c, screen |-> s, ok |-> FALSE]

\* the operand fields of an opcode
OpX(opcode) == Shr(BitAnd(opcode, 3840), 8)
OpY(opcode) == Shr(BitAnd(opcode, 240), 4)
OpN(opcode) == BitAnd(opcode, 15)
OpNN(opcode) == BitAnd(opcode, 255)
OpNNN(opcode) == BitAnd(opcode, 4095)

\* Cpu::fetch
fetch(c) ==
    IF c.pc >= RAM_SIZE \/ c.pc + 1 >= RAM_SIZE
    THEN [ok |-> FALSE, opcode |-> 0, cpu |-> c]
    ELSE [ ok |-> TRUE,
           opcode |-> BitOr(c.ram[c.pc] * 256, c.ram[c.pc + 1]),
           cpu |-> [c EXCEPT !.pc = c.pc + 2] ]

\* 00E0: clear the screen
op_clear(c, s, disp) ==
    LET c1 == [c EXCEPT !.has_drawn = TRUE]
    IN  IF ~disp THEN Panic(c1, s) ELSE Ok(c1, clear(s))

\* 00EE that clears the two bytes it pops
op_ret_clears_slot(c, s) ==
    IF c.sp = 0 \/ c.sp - 1 >= RAM_SIZE THEN Panic(c, s)
    ELSE LET sp1 == c.sp - 1
             hi == c.ram[sp1]
         IN  IF sp1 = 0 THEN Panic(c, s)
             ELSE LET sp2 == sp1 - 1
                  IN  Ok([c EXCEPT !.sp = sp2,
                                   !.pc = BitOr((hi * 256) % U16, c.ram[sp2]),
                                   !.ram = [c.ram EXCEPT ![sp1] = 0, ![sp2] = 0]], s)

\* 00EE that leaves the stack pointer on the high byte it has read
op_ret_pops_once(c, s) ==
    IF c.sp = 0 \/ c.sp - 1 >= RAM_SIZE THEN Panic(c, s)
    ELSE LET sp1 == c.sp - 1
             hi == c.ram[sp1]
         IN  IF sp1 = 0 THEN Panic(c, s)
             ELSE LET sp2 == sp1 - 1
                  IN  Ok([c EXCEPT !.sp = sp1,
                                   !.pc = BitOr((hi * 256) % U16, c.ram[sp2])], s)

\* 00EE: return from subroutine
op_ret(c, s) ==
    IF c.sp = 0 \/ c.sp - 1 >= RAM_SIZE THEN Panic(c, s)
    ELSE LET sp1 == c.sp - 1
             hi == c.ram[sp1]
         IN  IF sp1 = 0 THEN Panic(c, s)
             ELSE LET sp2 == sp1 - 1
                  IN  Ok([c EXCEPT !.sp = sp2,
                                   !.pc = BitOr((hi * 256) % U16, c.ram[sp2])], s)

\* 1NNN: jump
op_jump(c, s, opcode) == Ok([c EXCEPT !.pc = OpNNN(opcode)], s)

\* 2NNN that pushes the high byte of the return address first
op_call_high_first(c, s, opcode) ==
    IF c.sp >= RAM_SIZE \/ c.sp + 1 >= RAM_SIZE THEN Panic(c, s)
    ELSE Ok([c EXCEPT !.ram = [c.ram EXCEPT ![c.sp] = Shr(c.pc, 8),
                                            ![c.sp + 1] = BitAnd(c.pc, 255)],
                      !.sp = c.sp + 2,
                      !.pc = OpNNN(opcode)], s)

\* 2NNN: call subroutine
op_call(c, s, opcode) ==
    IF c.sp >= RAM_SIZE \/ c.sp + 1 >= RAM_SIZE THEN Panic(c, s)
    ELSE Ok([c EXCEPT !.ram = [c.ram EXCEPT ![c.sp] = BitAnd(c.pc, 255),
                                            ![c.sp + 1] = Shr(c.pc, 8)],
                      !.sp = c.sp + 2,
                      !.pc = OpNNN(opcode)], s)

\* 3XNN: skip if VX == NN
op_skip_eq_nn(c, s, opcode) ==
    IF c.v_reg[OpX(opcode)] = OpNN(opcode)
    THEN Ok([c EXCEPT !.pc = c.pc + 2], s)
    ELSE Ok(c, s)

\* 4XNN: skip if VX != NN
op_skip_ne_nn(c, s, opcode) ==
    IF c.v_reg[OpX(opcode)] # OpNN(opcode)
    THEN Ok([c EXCEPT !.pc = c.pc + 2], s)
    ELSE Ok(c, s)

\* 5XY_: skip if VX == VY
op_skip_eq_vy(c, s, opcode) ==
    IF c.v_reg[OpX(opcode)] = c.v_reg[OpY(opcode)]
    THEN Ok([c EXCEPT !.pc = c.pc + 2], s)
    ELSE Ok(c, s)

\* 9XY_: skip if VX != VY
op_skip_ne_vy(c, s, opcode) ==
    IF c.v_reg[OpX(opcode)] # c.v_reg[OpY(opcode)]
    THEN Ok([c EXCEPT !.pc = c.pc + 2], s)
    ELSE Ok(c, s)

\* 6XNN: set VX to NN
op_set_vx(c, s, opcode) ==
    Ok([c EXCEPT !.v_reg[OpX(opcode)] = OpNN(opcode)], s)

\* 7XNN that signals the overflow in VF, as 8XY4 does
op_add_vx_carry(c, s, opcode) ==
    LET sum == c.v_reg[OpX(opcode)] + OpNN(opcode)
    IN  Ok([c EXCEPT !.v_reg[OpX(opcode)] = sum % U8,
                     !.v_reg[15] = IF sum >= U8 THEN 1 ELSE 0], s)

\* 7XNN: add NN to VX
op_add_vx(c, s, opcode) ==
    Ok([c EXCEPT !.v_reg[OpX(opcode)] =
                     WrappingAdd8(c.v_reg[OpX(opcode)], OpNN(opcode))], s)


\* 8XY0: VX = VY
op_mov(c, s, x, y) == Ok([c EXCEPT !.v_reg[x] = c.v_reg[y]], s)


\* 8XY1 with the flag cleared before the registers are combined
op_or_flag_first(c, s, x, y) ==
    LET v1 == [c.v_reg EXCEPT ![15] = 0]
    IN  Ok([c EXCEPT !.v_reg = [v1 EXCEPT ![x] = BitOr(v1[x], v1[y])]], s)

\* 8XY1: VX |= VY, then VF = 0
op_or(c, s, x, y) ==
    LET v1 == [c.v_reg EXCEPT ![x] = BitOr(c.v_reg[x], c.v_reg[y])]
    IN  Ok([c EXCEPT !.v_reg = [v1 EXCEPT ![15] = 0]], s)

\* 8XY2: VX &= VY, then VF = 0
op_and(c, s, x, y) ==
    LET v1 == [c.v_reg EXCEPT ![x] = BitAnd(c.v_reg[x], c.v_reg[y])]
    IN  Ok([c EXCEPT !.v_reg = [v1 EXCEPT ![15] = 0]], s)

\* 8XY3: VX ^= VY, then VF = 0
op_xor(c, s, x, y) ==
    LET v1 == [c.v_reg EXCEPT ![x] = BitXor(c.v_reg[x], c.v_reg[y])]
    IN  Ok([c EXCEPT !.v_reg = [v1 EXCEPT ![15] = 0]], s)


\* 8XY4 with the carry computed after VX has been overwritten
op_add_flag_late(c, s, x, y) ==
    LET v1 == [c.v_reg EXCEPT ![x] = WrappingAdd8(c.v_reg[x], c.v_reg[y])]
        flag == IF v1[x] + v1[y] > 255 THEN 1 ELSE 0
    IN  Ok([c EXCEPT !.v_reg = [v1 EXCEPT ![15] = flag]], s)

\* 8XY4: VX += VY, VF = carry
op_add(c, s, x, y) ==
    LET flag == IF c.v_reg[x] + c.v_reg[y] > 255 THEN 1 ELSE 0
        v1 == [c.v_reg EXCEPT ![x] = WrappingAdd8(c.v_reg[x], c.v_reg[y])]
    IN  Ok([c EXCEPT !.v_reg = [v1 EXCEPT ![15] = flag]], s)

\* 8XY5: VX -= VY, VF = no borrow
op_sub(c, s, x, y) ==
    LET flag == IF c.v_reg[x] >= c.v_reg[y] THEN 1 ELSE 0
        v1 == [c.v_reg EXCEPT ![x] = WrappingSub8(c.v_reg[x], c.v_reg[y])]
    IN  Ok([c EXCEPT !.v_reg = [v1 EXCEPT ![15] = flag]], s)


\* 8XY6 shifting VX in place instead of reading VY
op_shr_in_place(c, s, x, y) ==
    LET flag == BitAnd(c.v_reg[x], 1)
        v1 == [c.v_reg EXCEPT ![x] = Shr(c.v_reg[x], 1)]
    IN  Ok([c EXCEPT !.v_reg = [v1 EXCEPT ![15] = flag]], s)

\* 8XY6: VX = VY >> 1, VF = the bit shifted out
op_shr(c, s, x, y) ==
    LET flag == BitAnd(c.v_reg[y], 1)
        v1 == [c.v_reg EXCEPT ![x] = Shr(c.v_reg[y], 1)]
    IN  Ok([c EXCEPT !.v_reg = [v1 EXCEPT ![15] = flag]], s)


\* 8XY7 with the flag set only on a strictly greater minuend
op_subn_strict(c, s, x, y) ==
    LET flag == IF c.v_reg[y] > c.v_reg[x] THEN 1 ELSE 0
        v1 == [c.v_reg EXCEPT ![x] = WrappingSub8(c.v_reg[y], c.v_reg[x])]
    IN  Ok([c EXCEPT !.v_reg = [v1 EXCEPT ![15] = flag]], s)

\* 8XY7: VX = VY - VX, VF = no borrow
op_subn(c, s, x, y) ==
    LET flag == IF c.v_reg[y] >= c.v_reg[x] THEN 1 ELSE 0
        v1 == [c.v_reg EXCEPT ![x] = WrappingSub8(c.v_reg[y], c.v_reg[x])]
    IN  Ok([c EXCEPT !.v_reg = [v1 EXCEPT ![15] = flag]], s)

\* 8XYE: VX = VY << 1, VF = the bit shifted out
op_shl(c, s, x, y) ==
    LET flag == Shr(BitAnd(c.v_reg[y], 128), 7)
        v1 == [c.v_reg EXCEPT ![x] = Shl8(c.v_reg[y], 1)]
    IN  Ok([c EXCEPT !.v_reg = [v1 EXCEPT ![15] = flag]], s)

\* an opcode no arm matches: warn!, nothing else
op_unknown(c, s) == Ok(c, s)

\* 8XY_: arithmetical and logical operations
op_alu(c, s, opcode) ==
    LET x == OpX(opcode)
        y == OpY(opcode)
        n == BitAnd(opcode, 15)
    IN  CASE n = 0 -> op_mov(c, s, x, y)
          [] n = 1 -> op_or(c, s, x, y)
          [] n = 2 -> op_and(c, s, x, y)
          [] n = 3 -> op_xor(c, s, x, y)
          [] n = 4 -> op_add(c, s, x, y)
          [] n = 5 -> op_sub(c, s, x, y)
          [] n = 6 -> op_shr(c, s, x, y)
          [] n = 7 -> op_subn(c, s, x, y)
          [] n = 14 -> op_shl(c, s, x, y)
          [] OTHER -> op_unknown(c, s)

\* ANNN: index = NNN
op_set_index(c, s, opcode) == Ok([c EXCEPT !.index = OpNNN(opcode)], s)

\* BNNN that keeps the sum within the twelve bits of an address
op_jump_v0_masked(c, s, opcode) ==
    Ok([c EXCEPT !.pc = (OpNNN(opcode) + c.v_reg[0]) % RAM_SIZE], s)

\* BNNN: jump to NNN + V0
op_jump_v0(c, s, opcode) == Ok([c EXCEPT !.pc = OpNNN(opcode) + c.v_reg[0]], s)

\* CXNN: VX = random byte & NN; rnd is the byte the generator returns
op_rand(c, s, opcode, rnd) ==
    Ok([c EXCEPT !.v_reg[OpX(opcode)] = BitAnd(rnd, OpNN(opcode))], s)

\* the loop over the bits of a row when a bit past column 63 wraps around to
\* the left edge
RECURSIVE draw_cols_wrapping(_, _, _, _, _, _)
draw_cols_wrapping(s, vf, byte, x, row, j) ==
    IF j >= 8 THEN [screen |-> s, vf |-> vf]
    ELSE LET bit == BitAnd(Shr(byte, 7 - j), 1)
             d == draw_pixel(s, (x + j) % 64, row, bit)
         IN  draw_cols_wrapping(d.screen,
                                IF d.prev = 1 /\ bit = 1 THEN 1 ELSE vf,
                                byte, x, row, j + 1)

\* the loop `for j in 0..8` over the bits of one sprite row, from bit j on:
\* the screen after it and the value of VF
RECURSIVE draw_cols(_, _, _, _, _, _)
draw_cols(s, vf, byte, x, row, j) ==
    IF j >= 8 \/ x + j >= 64 THEN [screen |-> s, vf |-> vf]
    ELSE LET bit == BitAnd(Shr(byte, 7 - j), 1)
             d == draw_pixel(s, x + j, row, bit)
         IN  draw_cols(d.screen,
                       IF d.prev = 1 /\ bit = 1 THEN 1 ELSE vf,
                       byte, x, row, j + 1)

\* the loop `for i in 0..n` over the rows of the sprite, from row i on
RECURSIVE draw_rows(_, _, _, _, _, _, _)
draw_rows(c, s, x, y, n, i, oc) ==
    IF i >= n \/ y + i >= 32 THEN Ok(c, s)
    ELSE LET sum == c.index + i
         IN  IF sum >= U16 /\ oc THEN Panic(c, s)
             ELSE LET addr == sum % U16
                  IN  IF addr >= RAM_SIZE THEN Panic(c, s)
                      ELSE LET r == draw_cols(s, c.v_reg[15], c.ram[addr], x, y + i, 0)
                           IN  draw_rows([c EXCEPT !.v_reg[15] = r.vf],
                                         r.screen, x, y, n, i + 1, oc)

\* DXYN that does not reset VF before the rows are drawn
op_draw_no_reset(c, s, opcode, disp, oc) ==
    LET c1 == [c EXCEPT !.has_drawn = TRUE]
    IN  IF ~disp THEN Panic(c1, s)
        ELSE LET x == c1.v_reg[OpX(opcode)] % 64
                 y == c1.v_reg[OpY(opcode)] % 32
                 n == BitAnd(opcode, 15)
             IN  draw_rows(c1, s, x, y, n, 0, oc)

\* DXYN: draw sprite
op_draw(c, s, opcode, disp, oc) ==
    LET c1 == [c EXCEPT !.has_drawn = TRUE]
    IN  IF ~disp THEN Panic(c1, s)
        ELSE LET x == c1.v_reg[OpX(opcode)] % 64
                 y == c1.v_reg[OpY(opcode)] % 32
                 n == BitAnd(opcode, 15)
             IN  draw_rows([c1 EXCEPT !.v_reg[15] = 0], s, x, y, n, 0, oc)

\* EX9E with the test inverted: skip if key VX is NOT pressed
op_skip_key_inverted(c, s, opcode) ==
    LET key == c.v_reg[OpX(opcode)]
    IN  IF key >= NUM_KEYS THEN Panic(c, s)
        ELSE IF ~is_key_pressed(s, key)
        THEN Ok([c EXCEPT !.pc = c.pc + 2], s)
        ELSE Ok(c, s)

\* EX9E: skip if key VX is pressed
op_skip_key(c, s, opcode) ==
    LET key == c.v_reg[OpX(opcode)]
    IN  IF key >= NUM_KEYS THEN Panic(c, s)
        ELSE IF is_key_pressed(s, key)
        THEN Ok([c EXCEPT !.pc = c.pc + 2], s)
        ELSE Ok(c, s)

\* EXA1: skip if key VX is not pressed
op_skip_nokey(c, s, opcode) ==
    LET key == c.v_reg[OpX(opcode)]
    IN  IF key >= NUM_KEYS THEN Panic(c, s)
        ELSE IF ~is_key_pressed(s, key)
        THEN Ok([c EXCEPT !.pc = c.pc + 2], s)
        ELSE Ok(c, s)

\* EX__: the screen is unwrapped before the low byte is matched
op_keys(c, s, opcode, disp) ==
    IF ~disp THEN Panic(c, s)
    ELSE LET b == BitAnd(opcode, 255)
         IN  CASE b = 158 -> op_skip_key(c, s, opcode)
               [] b = 161 -> op_skip_nokey(c, s, opcode)
               [] OTHER -> op_unknown(c, s)


\* FX07: VX = delay timer
op_get_delay(c, s, opcode) == Ok([c EXCEPT !.v_reg[OpX(opcode)] = c.delay_timer], s)

\* FX15: delay timer = VX
op_set_delay(c, s, opcode) == Ok([c EXCEPT !.delay_timer = c.v_reg[OpX(opcode)]], s)

\* FX18 that sets the delay timer along with the sound timer
op_set_sound_both(c, s, opcode) ==
    Ok([c EXCEPT !.sound_timer = c.v_reg[OpX(opcode)],
                 !.delay_timer = c.v_reg[OpX(opcode)]], s)

\* FX18: sound timer = VX
op_set_sound(c, s, opcode) == Ok([c EXCEPT !.sound_timer = c.v_reg[OpX(opcode)]], s)

\* FX1E: index += VX
op_add_index(c, s, opcode) ==
    Ok([c EXCEPT !.index = WrappingAdd16(c.index, c.v_reg[OpX(opcode)])], s)

\* FX29 for glyphs of four bytes
op_font_stride_four(c, s, opcode, oc) ==
    LET prod == c.v_reg[OpX(opcode)] * 4
    IN  IF prod >= U8 /\ oc THEN Panic(c, s)
        ELSE Ok([c EXCEPT !.index = START_FONT + (prod % U8)], s)

\* FX29: index = address of the glyph of VX; the product is a u8
op_font(c, s, opcode, oc) ==
    LET prod == c.v_reg[OpX(opcode)] * 5
    IN  IF prod >= U8 /\ oc THEN Panic(c, s)
        ELSE Ok([c EXCEPT !.index = START_FONT + (prod % U8)], s)

\* FX33 that stores the units first and the hundreds last
op_bcd_units_first(c, s, opcode) ==
    LET v == c.v_reg[OpX(opcode)]
    IN  IF c.index + 2 >= RAM_SIZE THEN Panic(c, s)
        ELSE Ok([c EXCEPT !.ram = [c.ram EXCEPT ![c.index] = v % 10,
                                                ![c.index + 1] = (v \div 10) % 10,
                                                ![c.index + 2] = v \div 100]], s)

\* FX33: store the BCD digits of VX at index, index + 1, index + 2
op_bcd(c, s, opcode) ==
    LET v == c.v_reg[OpX(opcode)]
    IN  IF c.index + 2 >= RAM_SIZE THEN Panic(c, s)
        ELSE Ok([c EXCEPT !.ram = [c.ram EXCEPT ![c.index] = v \div 100,
                                                ![c.index + 1] = (v \div 10) % 10,
                                                ![c.index + 2] = v % 10]], s)

\* the loop of FX55, from register i on
RECURSIVE store_regs(_, _, _, _)
store_regs(c, s, x, i) ==
    IF i >= x + 1 THEN Ok(c, s)
    ELSE IF c.index >= RAM_SIZE THEN Panic(c, s)
    ELSE store_regs([c EXCEPT !.ram[c.index] = c.v_reg[i],
                              !.index = c.index + 1], s, x, i + 1)

\* FX55 that leaves index where it was
op_store_keep_index(c, s, opcode) ==
    LET r == store_regs(c, s, OpX(opcode), 0)
    IN  [r EXCEPT !.cpu.index = c.index]

\* FX55: store V0..VX in memory starting at index
op_store(c, s, opcode) == store_regs(c, s, OpX(opcode), 0)

\* the loop of FX65, from register i on
RECURSIVE load_regs(_, _, _, _)
load_regs(c, s, x, i) ==
    IF i >= x + 1 THEN Ok(c, s)
    ELSE IF c.index >= RAM_SIZE THEN Panic(c, s)
    ELSE load_regs([c EXCEPT !.v_reg[i] = c.ram[c.index],
                             !.index = c.index + 1], s, x, i + 1)

\* FX65: read V0..VX from memory starting at index
op_load(c, s, opcode) == load_regs(c, s, OpX(opcode), 0)

\* FX0A that starts the wait over when the awaited key has gone up, instead
\* of completing
op_wait_key_restarts(c, s, opcode, disp) ==
    IF ~disp THEN Panic(c, s)
    ELSE IF IsSome(c.last_key)
    THEN LET key == Unwrap(c.last_key)
         IN  IF ~is_key_pressed(s, key)
             THEN Ok([c EXCEPT !.pc = c.pc - 2, !.last_key = None], s)
             ELSE Ok([c EXCEPT !.pc = c.pc - 2], s)
    ELSE Ok([c EXCEPT !.pc = c.pc - 2, !.last_key = get_key_pressed(s)], s)

\* FX0A that moves on when it captures a key, and still remembers the key
op_wait_key_moves_on(c, s, opcode, disp) ==
    IF ~disp THEN Panic(c, s)
    ELSE IF IsSome(c.last_key)
    THEN LET key == Unwrap(c.last_key)
         IN  IF ~is_key_pressed(s, key)
             THEN Ok([c EXCEPT !.v_reg[OpX(opcode)] = key, !.last_key = None], s)
             ELSE Ok([c EXCEPT !.pc = c.pc - 2], s)
    ELSE LET k == get_key_pressed(s)
         IN  Ok([c EXCEPT !.pc = IF IsSome(k) THEN c.pc ELSE c.pc - 2,
                          !.last_key = k], s)

\* FX0A: wait for a key press and its release
op_wait_key(c, s, opcode, disp) ==
    IF ~disp THEN Panic(c, s)
    ELSE IF IsSome(c.last_key)
    THEN LET key == Unwrap(c.last_key)
         IN  IF ~is_key_pressed(s, key)
             THEN Ok([c EXCEPT !.v_reg[OpX(opcode)] = key, !.last_key = None], s)
             ELSE Ok([c EXCEPT !.pc = c.pc - 2], s)
    ELSE Ok([c EXCEPT !.pc = c.pc - 2, !.last_key = get_key_pressed(s)], s)

\* FX__
op_misc(c, s, opcode, disp, oc) ==
    LET b == BitAnd(opcode, 255)
    IN  CASE b = 7 -> op_get_delay(c, s, opcode)
          [] b = 21 -> op_set_delay(c, s, opcode)
          [] b = 24 -> op_set_sound(c, s, opcode)
          [] b = 30 -> op_add_index(c, s, opcode)
          [] b = 41 -> op_font(c, s, opcode, oc)
          [] b = 51 -> op_bcd(c, s, opcode)
          [] b = 85 -> op_store(c, s, opcode)
          [] b = 101 -> op_load(c, s, opcode)
          [] b = 10 -> op_wait_key(c, s, opcode, disp)
          [] OTHER -> op_unknown(c, s)

\* 0___
op_sys(c, s, opcode, disp) ==
    LET b == BitAnd(opcode, 255)
    IN  CASE b = 224 -> op_clear(c, s, disp)
          [] b = 238 -> op_ret(c, s)
          [] OTHER -> op_unknown(c, s)

\* the match on opcode & 0xF000, after the fetch
execute(c, s, opcode, disp, rnd, oc) ==
    LET f == Shr(BitAnd(opcode, 61440), 12)
    IN  CASE f = 0 -> op_sys(c, s, opcode, disp)
          [] f = 1 -> op_jump(c, s, opcode)
          [] f = 2 -> op_call(c, s, opcode)
          [] f = 3 -> op_skip_eq_nn(c, s, opcode)
          [] f = 4 -> op_skip_ne_nn(c, s, opcode)
          [] f = 5 -> op_skip_eq_vy(c, s, opcode)
          [] f = 6 -> op_set_vx(c, s, opcode)
          [] f = 7 -> op_add_vx(c, s, opcode)
          [] f = 8 -> op_alu(c, s, opcode)
          [] f = 9 -> op_skip_ne_vy(c, s, opcode)
          [] f = 10 -> op_set_index(c, s, opcode)
          [] f = 11 -> op_jump_v0(c, s, opcode)
          [] f = 12 -> op_rand(c, s, opcode, rnd)
          [] f = 13 -> op_draw(c, s, opcode, disp, oc)
          [] f = 14 -> op_keys(c, s, opcode, disp)
          [] OTHER -> op_misc(c, s, opcode, disp, oc)

\* step that does not reset has_drawn before the fetch
step_keep_dirty(c, s, disp, rnd, oc) ==
    LET f == fetch(c)
    IN  IF ~f.ok THEN Panic(c, s)
        ELSE execute(f.cpu, s, f.opcode, disp, rnd, oc)

\* Cpu::step: disp tells whether a Screen is passed (Some) or not (None), rnd
\* is the byte the random generator would return, oc whether overflow is checked
step(c, s, disp, rnd, oc) ==
    LET c0 == [c EXCEPT !.has_drawn = FALSE]
        f == fetch(c0)
    IN  IF ~f.ok THEN Panic(c0, s)
        ELSE execute(f.cpu, s, f.opcode, disp, rnd, oc)

\* the opcode the next step will fetch (0 when the fetch would panic)
NextOpcode(c) == fetch(c).opcode

(***************************************************************************)
(* The other operations of Cpu.                                            *)
(***************************************************************************)
\* the first loop of Cpu::load_rom, from byte i of the rom on
RECURSIVE copy_rom(_, _, _)
copy_rom(ram, rom, i) ==
    IF i > Len(rom) THEN ram
    ELSE LET ram1 == [ram EXCEPT ![START_PGM + i - 1] = rom[i]]
         IN  copy_rom(ram1, rom, i + 1)

\* the second loop of Cpu::load_rom, five bytes (one glyph) at a time, from
\* glyph g on
RECURSIVE copy_font(_, _)
copy_font(ram, g) ==
    IF 5 * g >= Len(fontset) THEN ram
    ELSE LET font == fontset
             a == START_FONT + 5 * g
             ram1 == [ram EXCEPT ![a] = font[5 * g + 1],
                                 ![a + 1] = font[5 * g + 2],
                                 ![a + 2] = font[5 * g + 3],
                                 ![a + 3] = font[5 * g + 4],
                                 ![a + 4] = font[5 * g + 5]]
         IN  copy_font(ram1, g + 1)

\* load_rom that copies the rom and leaves the font out
load_rom_without_font(c, rom) ==
    IF START_PGM + Len(rom) > RAM_SIZE THEN [cpu |-> c, ok |-> FALSE]
    ELSE [cpu |-> [c EXCEPT !.ram = copy_rom(c.ram, rom, 1)], ok |-> TRUE]

\* Cpu::load_rom; it panics when the rom does not fit above START_PGM
load_rom(c, rom) ==
    IF START_PGM + Len(rom) > RAM_SIZE THEN [cpu |-> c, ok |-> FALSE]
    ELSE [cpu |-> [c EXCEPT !.ram = copy_font(copy_rom(c.ram, rom, 1), 0)],
          ok |-> TRUE]

\* Cpu::load_rom_file, when the file f opens or not, reads to its end or not,
\* and holds f.bytes: the Cpu after the call, whether the call returned (ok)
\* and the io::Result it returned
load_rom_file(c, f) ==
    IF ~f.opens THEN [cpu |-> c, ok |-> TRUE, result |-> "Err"]
    ELSE IF ~f.reads THEN [cpu |-> c, ok |-> TRUE, result |-> "Err"]
    ELSE LET r == load_rom(c, f.bytes)
         IN  [cpu |-> r.cpu, ok |-> r.ok, result |-> "Ok"]

\* main that enters its loop whatever load_rom_file returned
main_ignores_error(result) == "running"

\* main, after load_rom_file: on Err it logs the error and returns, on Ok it
\* creates the Screen and enters its loop
main_after_load(result) ==
    IF result = "Err" THEN "load_failed" ELSE "running"

\* update_timers with a strict test: nothing happens at exactly 16 ms
update_timers_strict(c, now) ==
    IF now - c.time > from_millis(TIMER_MILLIS)
    THEN [c EXCEPT !.delay_timer = IF c.delay_timer > 0 THEN c.delay_timer - 1
                                   ELSE c.delay_timer,
                   !.sound_timer = IF c.sound_timer > 0 THEN c.sound_timer - 1
                                   ELSE c.sound_timer,
                   !.time = now]
    ELSE c

\* update_timers that catches up: it takes one from each timer for every
\* 16 ms that have passed
update_timers_catch_up(c, now) ==
    LET quanta == (now - c.time) \div from_millis(TIMER_MILLIS)
    IN  IF quanta >= 1
        THEN [c EXCEPT !.delay_timer = IF c.delay_timer > quanta
                                       THEN c.delay_timer - quanta ELSE 0,
                       !.sound_timer = IF c.sound_timer > quanta
                                       THEN c.sound_timer - quanta ELSE 0,
                       !.time = now]
        ELSE c

\* Cpu::update_timers, when Instant::now() returns now
update_timers(c, now) ==
    IF now - c.time >= from_millis(TIMER_MILLIS)
    THEN [c EXCEPT !.delay_timer = IF c.delay_timer > 0 THEN c.delay_timer - 1
                                   ELSE c.delay_timer,
                   !.sound_timer = IF c.sound_timer > 0 THEN c.sound_timer - 1
                                   ELSE c.sound_timer,
                   !.time = now]
    ELSE c

\* Cpu::get_sound_timer
get_sound_timer(c) == c.sound_timer

\* Cpu::has_drawn
has_drawn(c) == c.has_drawn


(***************************************************************************)
(* Screen::update: present the pixels, then handle the pending events.     *)
(***************************************************************************)
\* the keypad index of a key code (the match arms of Screen::update)
keymap ==
    [ Num1 |-> 1, Num2 |-> 2, Num3 |-> 3, Num4 |-> 12,
      Q |-> 4, W |-> 5, E |-> 6, R |-> 13,
      A |-> 7, S |-> 8, D |-> 9, F |-> 14,
      Z |-> 10, X |-> 0, C |-> 11, V |-> 15 ]

saturating_sub(a, b) == IF a >= b THEN a - b ELSE 0

\* the loop over event_pump.poll_iter(), from event i on; exit is TRUE when
\* a Quit event ended the process
RECURSIVE handle_events(_, _, _)
handle_events(s, evs, i) ==
    IF i > Len(evs) THEN [screen |-> s, exit |-> FALSE]
    ELSE LET ev == evs[i]
         IN  IF ev.kind = "Quit" THEN [screen |-> s, exit |-> TRUE]
             ELSE IF ev.kind = "KeyDown" /\ ev.keycode \in DOMAIN keymap
             THEN handle_events([s EXCEPT !.keypad[keymap[ev.keycode]] = TRUE], evs, i + 1)
             ELSE IF ev.kind = "KeyUp" /\ ev.keycode \in DOMAIN keymap
             THEN handle_events([s EXCEPT !.keypad[keymap[ev.keycode]] = FALSE], evs, i + 1)
             ELSE handle_events(s, evs, i + 1)

\* the first half of Screen::update: when there is something to present,
\* the pixels that were shut down fade
present(s, draw) ==
    IF draw \/ \E i \in 0 .. SCREEN_WIDTH * SCREEN_HEIGHT - 1 : s.shutdown_pixels[i] > 0
    THEN [s EXCEPT !.shutdown_pixels =
              [i \in 0 .. SCREEN_WIDTH * SCREEN_HEIGHT - 1 |->
                  saturating_sub(s.shutdown_pixels[i], PIXEL_SHUTDOWN_FACTOR)]]
    ELSE s

\* Screen::update, when the event pump holds the events evs
update(s, draw, evs) == handle_events(present(s, draw), evs, 1)

(***************************************************************************)
(* Inputs.                                                                 *)
(***************************************************************************)
\* the bytes the random generator returns
RandomBytes == {0, 85, 170, 255}

RandomInputs(opcode) == IF Shr(opcode, 12) = 12 THEN RandomBytes ELSE {0}

\* the time that passes between two readings of the clock, in units of 1/3 ms
ElapsedChoices == {0, 47, 48, 49, 50, 150}

\* the keys the user touches, among the sixteen of the keypad
UserKeys == {0, 1}

\* the key codes of those keys, and one key code that maps to no key
Keycodes == {kc \in DOMAIN keymap : keymap[kc] \in UserKeys} \cup {"Space"}

Events ==
    {[kind |-> "Quit", keycode |-> ""]}
        \cup {[kind |-> k, keycode |-> kc] : k \in {"KeyDown", "KeyUp"}, kc \in Keycodes}

\* what the event pump can hold when Screen::update polls it
EventBatches == {<< >>} \cup {<< e >> : e \in Events}

(***************************************************************************)
(* History: the operation that led to the current state, its inputs, and   *)
(* the state it started from (hist); and the operation before that one,    *)
(* with the registers and the pixels it started from (hist2).              *)
(***************************************************************************)
Record(op, opcode, disp, ok) ==
    [ op |-> op, opcode |-> opcode, disp |-> disp, ok |-> ok, rom |-> << >>,
      cpu |-> cpu, screen |-> screen, clock |-> clock, calls |-> calls ]

Brief(h) ==
    [ op |-> h.op, opcode |-> h.opcode, ok |-> h.ok,
      pc |-> h.cpu.pc, index |-> h.cpu.index, v_reg |-> h.cpu.v_reg,
      pixels |-> h.screen.pixels ]

IsCall(opcode) == Shr(opcode, 12) = 2
IsRet(opcode) == Shr(opcode, 12) = 0 /\ BitAnd(opcode, 255) = 238

\* the calls entered and not yet returned from, after a completed step: each
\* with the address of its call instruction and the stack pointer before it
CallsAfter(cs, c, opcode) ==
    IF IsCall(opcode) THEN Append(cs, [at |-> c.pc, sp |-> c.sp])
    ELSE IF IsRet(opcode) /\ Len(cs) > 0 THEN SubSeq(cs, 1, Len(cs) - 1)
    ELSE cs

(***************************************************************************)
(* Initial state and actions.                                              *)
(***************************************************************************)
\* main.rs: FRAME_RATE
FRAME_RATE == 40

\* the instructions main executes per frame, for the option --ips
instructions_per_frame(ips) == ips \div FRAME_RATE

\* main that tells Screen::update to draw when the last step of the frame
\* has drawn
frame_draw_last(draw, c) == has_drawn(c)

\* what main keeps in draw after a step: draw || cpu.has_drawn()
frame_draw(draw, c) == draw \/ has_drawn(c)

\* main before it has parsed its arguments: ips is the option, ipf and draw
\* are its locals, at is where its loop is ("steps", then "update"), steps
\* and ticks count the step and update_timers calls made since the frame
\* began, steps_at_tick is how many steps had been made when update_timers
\* was called, reported tells whether a step of the frame reported
\* has_drawn(), frames counts the frames that are over, and last is the same
\* account of the frame before, with the draw argument its Screen::update
\* was given
FrameNew ==
    [ ips |-> 0, ipf |-> 0, draw |-> FALSE, at |-> "start",
      steps |-> 0, ticks |-> 0, steps_at_tick |-> 0, reported |-> FALSE,
      frames |-> 0,
      last |-> [ steps |-> 0, ticks |-> 0, steps_at_tick |-> 0,
                 reported |-> FALSE, told |-> FALSE ] ]

HistNew ==
    [ op |-> "new", opcode |-> 0, disp |-> FALSE, ok |-> TRUE, rom |-> << >>,
      cpu |-> CpuNew(0), screen |-> ScreenNew, clock |-> 0, calls |-> << >> ]

Init ==
    /\ cpu = CpuNew(0)
    /\ screen = ScreenNew
    /\ clock = 0
    /\ build \in [overflow_checks : BOOLEAN]
    /\ status = "new"
    /\ hist = HistNew
    /\ hist2 = Brief(HistNew)
    /\ calls = << >>
    /\ nsteps = 0
    /\ nupdates = 0
    /\ frame = FrameNew

\* the driver loads one of the roms
Load(roms) ==
    /\ status = "new"
    /\ \E rom \in roms :
          LET r == load_rom(cpu, rom)
          IN  /\ cpu' = r.cpu
              /\ status' = IF r.ok THEN "running" ELSE "panicked"
              /\ hist' = [Record("load_rom", 0, FALSE, r.ok) EXCEPT !.rom = rom]
    /\ hist2' = Brief(hist)
    /\ UNCHANGED << screen, clock, build, calls, nsteps, nupdates, frame >>

\* main loads the rom file named on the command line
LoadFile(files) ==
    /\ status = "new"
    /\ \E f \in files :
          LET r == load_rom_file(cpu, f)
          IN  /\ cpu' = r.cpu
              /\ status' = IF r.ok THEN main_after_load(r.result) ELSE "panicked"
              /\ hist' = [Record(IF r.result = "Err" THEN "load_rom_file_err"
                                 ELSE "load_rom_file", 0, FALSE, r.ok)
                            EXCEPT !.rom = f.bytes]
    /\ hist2' = Brief(hist)
    /\ UNCHANGED << screen, clock, build, calls, nsteps, nupdates, frame >>

\* the driver calls step: with a Screen (disp) or without, as displays allows
Step(displays) ==
    /\ status = "running"
    /\ nsteps < MaxSteps
    /\ \E disp \in displays, rnd \in RandomInputs(NextOpcode(cpu)) :
          LET r == step(cpu, screen, disp, rnd, build.overflow_checks)
          IN  /\ cpu' = r.cpu
              /\ screen' = r.screen
              /\ status' = IF r.ok THEN "running" ELSE "panicked"
              /\ hist' = Record("step", NextOpcode(cpu), disp, r.ok)
              /\ calls' = IF r.ok THEN CallsAfter(calls, cpu, NextOpcode(cpu)) ELSE calls
    /\ hist2' = Brief(hist)
    /\ nsteps' = nsteps + 1
    /\ UNCHANGED << clock, build, nupdates, frame >>

\* step as the unit tests call it: cpu.step(None)
StepNone == Step({FALSE})

\* step as main calls it: cpu.step(Some(&mut screen))
StepSome == Step({TRUE})

\* step called either way
StepAny == Step(BOOLEAN)

\* the driver calls update_timers, which reads the clock
UpdateTimers ==
    /\ status = "running"
    /\ clock < MaxClock
    /\ \E d \in ElapsedChoices :
          /\ clock' = clock + d
          /\ cpu' = update_timers(cpu, clock + d)
    /\ hist' = Record("update_timers", 0, FALSE, TRUE)
    /\ hist2' = Brief(hist)
    /\ UNCHANGED << screen, build, status, calls, nsteps, nupdates, frame >>

\* the driver calls Screen::update: draw is one of draws, and the event pump
\* holds one of batches
ScreenUpdate(draws, batches) ==
    /\ status = "running"
    /\ nupdates < MaxUpdates
    /\ \E draw \in draws :
          LET presented == present(screen, draw)
          IN  \E evs \in batches :
                 LET r == handle_events(presented, evs, 1)
                 IN  /\ screen' = r.screen
                     /\ status' = IF r.exit THEN "exited" ELSE "running"
    /\ hist' = Record("update", 0, FALSE, TRUE)
    /\ hist2' = Brief(hist)
    /\ nupdates' = nupdates + 1
    /\ UNCHANGED << cpu, clock, build, calls, nsteps, frame >>

\* Screen::update with nothing to present, while the user may press a key
KeyDownBatches ==
    { << [kind |-> "KeyDown", keycode |-> kc] >> : kc \in Keycodes \ {"Space"} }

PressKey == ScreenUpdate({FALSE}, KeyDownBatches)

\* a step that has just completed, and what it executed
Stepped == hist.op = "step" /\ hist.ok
Family(opcode) == Shr(opcode, 12)

(***************************************************************************)
(* Register arithmetic: roms that set two registers and combine them.      *)
(***************************************************************************)
AluRegs == {0, 1, 15}
AluVals == {1, 128, 255}
AluOps == {0, 1, 2, 3, 4, 5, 6, 7, 14, 8}

AluRoms ==
    { << 96 + x, a, 96 + y, b, 128 + x, 16 * y + n >> :
        x \in AluRegs, y \in AluRegs, a \in AluVals, b \in AluVals, n \in AluOps }

LoadAlu == Load(AluRoms)

NextAlu == LoadAlu \/ StepNone

SpecAlu == Init /\ [][NextAlu]_vars


\* the last operation was a completed step of the 8XYn instruction
AluStep(n) == Stepped /\ Family(hist.opcode) = 8 /\ OpN(hist.opcode) = n

\* the operand registers of the instruction the last step executed, and the
\* values they held before it
HX == OpX(hist.opcode)
HY == OpY(hist.opcode)
OldVx == hist.cpu.v_reg[HX]
OldVy == hist.cpu.v_reg[HY]

\* r is the bitwise combination of the bytes a and b under 8XYn, n in 1..3
Combines(n, r, a, b) ==
    /\ r \in 0 .. 255
    /\ \A i \in 0 .. 7 :
          (Bit(r, i) = 1) <=>
              CASE n = 1 -> Bit(a, i) = 1 \/ Bit(b, i) = 1
                [] n = 2 -> Bit(a, i) = 1 /\ Bit(b, i) = 1
                [] n = 3 -> Bit(a, i) # Bit(b, i)

\* C5: after an OR (8xy1), AND (8xy2) or XOR (8xy3) step, whatever the
\* registers x and y (15 included) and their values, the flag register is 0,
\* and for x # 15 register x holds the bitwise combination of the old Vx and Vy.
C5_BitwiseClearsFlag ==
    \A n \in {1, 2, 3} :
        AluStep(n) =>
            /\ cpu.v_reg[15] = 0
            /\ HX # 15 => Combines(n, cpu.v_reg[HX], OldVx, OldVy)

\* an OR whose destination is the flag register itself, with bits to combine
C5_Witness ==
    /\ AluStep(1) /\ HX = 15 /\ HY # 15
    /\ OldVx = 255 /\ OldVy = 128
    /\ cpu.v_reg[15] = 0

\* C6: after a register add (8xy4) the flag register is 1 if old Vx + old Vy
\* exceeds 255 and 0 otherwise, and for x # 15 register x holds the sum
\* modulo 256; the flag comes from the operands as they were before the step.
C6_AddCarry ==
    AluStep(4) =>
        /\ cpu.v_reg[15] = (IF OldVx + OldVy > 255 THEN 1 ELSE 0)
        /\ HX # 15 => cpu.v_reg[HX] = (OldVx + OldVy) % 256

\* 255 + 1: the sum wraps to 0 and the carry is 1
C6_Witness ==
    /\ AluStep(4) /\ HX = 0 /\ HY = 1
    /\ OldVx = 255 /\ OldVy = 1
    /\ cpu.v_reg[0] = 0 /\ cpu.v_reg[15] = 1

\* the minuend and the subtrahend of the subtraction the last step executed
Minuend == IF OpN(hist.opcode) = 5 THEN OldVx ELSE OldVy
Subtrahend == IF OpN(hist.opcode) = 5 THEN OldVy ELSE OldVx

\* C7: after a subtract (8xy5, Vx - Vy) or a reversed subtract (8xy7, Vy - Vx)
\* the flag register is 1 exactly when minuend >= subtrahend, and for x # 15
\* register x holds (minuend - subtrahend) mod 256.
C7_SubNoBorrow ==
    \A n \in {5, 7} :
        AluStep(n) =>
            /\ cpu.v_reg[15] = (IF Minuend >= Subtrahend THEN 1 ELSE 0)
            /\ HX # 15 => cpu.v_reg[HX] = (Minuend - Subtrahend + 256) % 256

\* a reversed subtract of equal operands: the result is 0 and there is no borrow
C7_Witness ==
    /\ AluStep(7) /\ HX = 0 /\ HY = 1
    /\ OldVx = 128 /\ OldVy = 128
    /\ cpu.v_reg[0] = 0 /\ cpu.v_reg[15] = 1

\* C8 as claimed: after a shift the flag register is the bit shifted out of
\* the old Vy AND register x is the old Vy shifted, for every x; register y,
\* when it is neither x nor 15, is unchanged.
C8_ShiftAsClaimed ==
    /\ AluStep(6) =>
          /\ cpu.v_reg[15] = OldVy % 2
          /\ cpu.v_reg[HX] = OldVy \div 2
          /\ (HY # HX /\ HY # 15) => cpu.v_reg[HY] = OldVy
    /\ AluStep(14) =>
          /\ cpu.v_reg[15] = OldVy \div 128
          /\ cpu.v_reg[HX] = (OldVy * 2) % 256
          /\ (HY # HX /\ HY # 15) => cpu.v_reg[HY] = OldVy

\* C8, amended: the flag register is the bit shifted out of the old Vy; for
\* x # 15 register x is the old Vy shifted (for x = 15 the flag is written
\* last and wins); register y, when it is neither x nor 15, is unchanged.
C8_ShiftReadsVy ==
    /\ AluStep(6) =>
          /\ cpu.v_reg[15] = OldVy % 2
          /\ HX # 15 => cpu.v_reg[HX] = OldVy \div 2
          /\ (HY # HX /\ HY # 15) => cpu.v_reg[HY] = OldVy
    /\ AluStep(14) =>
          /\ cpu.v_reg[15] = OldVy \div 128
          /\ HX # 15 => cpu.v_reg[HX] = (OldVy * 2) % 256
          /\ (HY # HX /\ HY # 15) => cpu.v_reg[HY] = OldVy

\* a shift right whose source differs from its destination: V0 = V1 >> 1
C8_Witness ==
    /\ AluStep(6) /\ HX = 0 /\ HY = 1
    /\ OldVx = 128 /\ OldVy = 255
    /\ cpu.v_reg[0] = 127 /\ cpu.v_reg[1] = 255 /\ cpu.v_reg[15] = 1


(***************************************************************************)
(* Subroutines: roms that call a subroutine, run one instruction of it and *)
(* return, and a rom with a call nested in a call.                         *)
(***************************************************************************)
\* the instruction in the body of the subroutine
CallBodies ==
    { << 0, 0 >>, << 96, 5 >>, << 97, 255 >>, << 112, 1 >>, << 163, 0 >>,
      << 240, 30 >>, << 240, 85 >>, << 241, 85 >>, << 240, 51 >>, << 240, 101 >>,
      << 18, 6 >> }

CallRoms ==
    { << 34, 4, 0, 0 >> \o body \o << 0, 238 >> : body \in CallBodies }
        \cup { << 34, 2, 0, 238 >>,
               << 34, 4, 0, 0, 34, 8, 0, 238, 0, 238 >>,
               << 0, 238 >> }

LoadCall == Load(CallRoms)

NextCall == LoadCall \/ StepAny

SpecCall == Init /\ [][NextCall]_vars

\* the last operation was a completed return, from a call the run has seen
ReturnedFromCall == Stepped /\ IsRet(hist.opcode) /\ Len(hist.calls) > 0

\* the call that return matches: the last one entered and not yet left
MatchingCall == hist.calls[Len(hist.calls)]

\* C1: when a call executed at address A with stack pointer S is matched by
\* a return, after the return program_counter is A + 2 and stack_pointer is S.
C1_CallThenReturn ==
    ReturnedFromCall =>
        /\ cpu.pc = MatchingCall.at + 2
        /\ cpu.sp = MatchingCall.sp


(***************************************************************************)
(* Skips and unknown opcodes: roms that set registers and run one skip     *)
(* instruction, and roms that run an opcode no arm of step matches, alone  *)
(* or right after a clear-screen (which sets has_drawn).                   *)
(***************************************************************************)
\* 3XNN and 4XNN, on V1
SkipImmRoms ==
    { << 97, a, 16 * f + 1, 7 >> : a \in {0, 7}, f \in {3, 4} }

\* 5XY0 and 9XY0, on V0 and V1
SkipRegRoms ==
    { << 96, a, 97, 7, 16 * f, 16 >> : a \in {0, 7}, f \in {5, 9} }

\* EX9E and EXA1, on key 1 and on the key value 16, which no keypad entry
\* stands for
SkipKeyRoms ==
    { << 96, k, 224, b >> : k \in {1, 16}, b \in {158, 161} }

\* opcodes that no arm matches: 0x00E1, 0x8129, 0x812F, 0xE000, 0xE19F,
\* 0xF1FF (0x0000 is what every rom runs into at its end)
UnknownOpcodes ==
    { << 0, 225 >>, << 129, 41 >>, << 129, 47 >>,
      << 224, 0 >>, << 225, 159 >>, << 241, 255 >> }

UnknownRoms ==
    UnknownOpcodes \cup { << 0, 224 >>, << 0, 224, 224, 0 >> }

BranchRoms == SkipImmRoms \cup SkipRegRoms \cup SkipKeyRoms \cup UnknownRoms

LoadBranch == Load(BranchRoms)

NextBranch == LoadBranch \/ StepAny \/ PressKey

SpecBranch == Init /\ [][NextBranch]_vars

\* the low byte of the instruction the last step executed
HNN == OpNN(hist.opcode)

\* the instruction is one of the six skips
IsSkip(opcode) ==
    \/ Family(opcode) \in {3, 4, 5, 9}
    \/ Family(opcode) = 14 /\ OpNN(opcode) \in {158, 161}

\* the condition of the skip the last step executed, in the state before it
SkipHolds ==
    CASE Family(hist.opcode) = 3 -> OldVx = HNN
      [] Family(hist.opcode) = 4 -> OldVx # HNN
      [] Family(hist.opcode) = 5 -> OldVx = OldVy
      [] Family(hist.opcode) = 9 -> OldVx # OldVy
      [] Family(hist.opcode) = 14 /\ HNN = 158 -> hist.screen.keypad[OldVx]
      [] Family(hist.opcode) = 14 /\ HNN = 161 -> ~hist.screen.keypad[OldVx]

\* C9: a completed step of a skip instruction (3XNN, 4XNN, 5XY0, 9XY0, EX9E,
\* EXA1) leaves program_counter at the instruction's address + 4 when its
\* condition held and + 2 otherwise, and changes no register (index
\* included), no memory byte, not the stack pointer and no timer.
C9_SkipAdvances ==
    (Stepped /\ IsSkip(hist.opcode)) =>
        /\ cpu.pc = hist.cpu.pc + (IF SkipHolds THEN 4 ELSE 2)
        /\ cpu.v_reg = hist.cpu.v_reg
        /\ cpu.index = hist.cpu.index
        /\ cpu.ram = hist.cpu.ram
        /\ cpu.sp = hist.cpu.sp
        /\ cpu.delay_timer = hist.cpu.delay_timer
        /\ cpu.sound_timer = hist.cpu.sound_timer

\* EX9E on key 1 while key 1 is down: the next instruction is skipped
C9_Witness ==
    /\ Stepped /\ Family(hist.opcode) = 14 /\ HNN = 158
    /\ OldVx = 1 /\ hist.screen.keypad[1]
    /\ cpu.pc = hist.cpu.pc + 4

\* EXA1 on key 1 while key 1 is down: the next instruction is not skipped
C9_WitnessKeyUp ==
    /\ Stepped /\ Family(hist.opcode) = 14 /\ HNN = 161
    /\ OldVx = 1 /\ hist.screen.keypad[1]
    /\ cpu.pc = hist.cpu.pc + 2

\* the opcode matches no arm of step, in the families that have a default arm
IsUnknown(opcode) ==
    \/ Family(opcode) = 0 /\ OpNN(opcode) \notin {224, 238}
    \/ Family(opcode) = 8 /\ OpN(opcode) \notin {0, 1, 2, 3, 4, 5, 6, 7, 14}
    \/ Family(opcode) = 14 /\ OpNN(opcode) \notin {158, 161}
    \/ Family(opcode) = 15 /\ OpNN(opcode) \notin {7, 10, 21, 24, 30, 41, 51, 85, 101}

\* C10: a step that fetches an unknown opcode completes, with or without a
\* Screen, and changes nothing but program_counter (+ 2) and has_drawn (reset).
C10_UnknownIsNoOp ==
    (hist.op = "step" /\ IsUnknown(hist.opcode)) =>
        /\ hist.ok
        /\ cpu = [hist.cpu EXCEPT !.pc = @ + 2, !.has_drawn = FALSE]
        /\ screen = hist.screen

\* C10 outside the EX__ family, where the Screen is unwrapped before the
\* low byte is matched
C10_UnknownOutsideKeys ==
    (hist.op = "step" /\ IsUnknown(hist.opcode) /\ Family(hist.opcode) # 14) =>
        /\ hist.ok
        /\ cpu = [hist.cpu EXCEPT !.pc = @ + 2, !.has_drawn = FALSE]
        /\ screen = hist.screen


(***************************************************************************)
(* The blocking key wait: roms that start with FX0A, or set VX and then    *)
(* run FX0A, stepped with a Screen while the user presses and releases     *)
(* keys between the steps.                                                 *)
(***************************************************************************)
KeyRoms == { << 241, 10 >>, << 97, 9, 241, 10 >>, << 255, 10 >> }

\* two keys that go down between two polls of the event pump
KeyDownPairs ==
    { << [kind |-> "KeyDown", keycode |-> a], [kind |-> "KeyDown", keycode |-> b] >> :
        a \in Keycodes \ {"Space"}, b \in Keycodes \ {"Space"} }

LoadKeys == Load(KeyRoms)

TypeKeys == ScreenUpdate({FALSE}, EventBatches \cup KeyDownPairs)

NextKeys == LoadKeys \/ StepSome \/ TypeKeys

SpecKeys == Init /\ [][NextKeys]_vars

\* the last operation was a completed step of FX0A
WaitStep == Stepped /\ Family(hist.opcode) = 15 /\ HNN = 10

\* the lowest-numbered key that is down on the keypad of s, if any
LowestDown(s) ==
    IF \E k \in 0 .. NUM_KEYS - 1 : s.keypad[k]
    THEN Some(CHOOSE k \in 0 .. NUM_KEYS - 1 :
                 s.keypad[k] /\ \A j \in 0 .. k - 1 : ~s.keypad[j])
    ELSE None

\* C2: a step of FX0A at address A
\*   - with no key awaited: leaves program_counter at A and every register
\*     unchanged, and starts awaiting the lowest-numbered key that is down, if
\*     one is down;
\*   - with key k awaited and k still down: leaves program_counter at A, every
\*     register unchanged and k awaited;
\*   - with key k awaited and k no longer down: sets register x to k, clears
\*     the awaited key and leaves program_counter at A + 2.
\* And a key is awaited only while program_counter is parked on an FX0A.
C2_KeyWait ==
    /\ WaitStep =>
          IF ~IsSome(hist.cpu.last_key)
          THEN /\ cpu.pc = hist.cpu.pc
               /\ cpu.v_reg = hist.cpu.v_reg
               /\ cpu.last_key = LowestDown(hist.screen)
          ELSE IF hist.screen.keypad[Unwrap(hist.cpu.last_key)]
          THEN /\ cpu.pc = hist.cpu.pc
               /\ cpu.v_reg = hist.cpu.v_reg
               /\ cpu.last_key = hist.cpu.last_key
          ELSE /\ cpu.pc = hist.cpu.pc + 2
               /\ cpu.v_reg = [hist.cpu.v_reg EXCEPT ![HX] = Unwrap(hist.cpu.last_key)]
               /\ cpu.last_key = None
    /\ (status = "running" /\ IsSome(cpu.last_key)) =>
          /\ Family(NextOpcode(cpu)) = 15
          /\ OpNN(NextOpcode(cpu)) = 10

\* keys 0 and 1 went down together, the wait captured key 0, and key 0 has
\* been released while key 1 is still down: V1 (9 before) is 0 and the wait
\* is over
C2_Witness ==
    /\ WaitStep /\ HX = 1
    /\ hist.cpu.v_reg[1] = 9
    /\ hist.cpu.last_key = Some(0)
    /\ ~hist.screen.keypad[0] /\ hist.screen.keypad[1]
    /\ cpu.v_reg[1] = 0 /\ cpu.last_key = None /\ cpu.pc = hist.cpu.pc + 2

\* the wait captured key 0 while key 1 was down too
C2_WitnessLowest ==
    /\ WaitStep
    /\ ~IsSome(hist.cpu.last_key)
    /\ hist.screen.keypad[0] /\ hist.screen.keypad[1]
    /\ cpu.last_key = Some(0)


(***************************************************************************)
(* Timers: roms that set the delay timer, and some the sound timer too,    *)
(* while the driver calls update_timers between the steps.                 *)
(***************************************************************************)
TimerRoms ==
    { << 96, 2, 240, 21, 240, 24 >>, << 96, 1, 240, 21 >>, << 96, 0, 240, 21 >>,
      << 96, 2, 240, 21, 241, 7 >>, << 96, 3, 240, 24, 240, 30 >> }

LoadTimers == Load(TimerRoms)

NextTimers == LoadTimers \/ StepNone \/ UpdateTimers

SpecTimers == Init /\ [][NextTimers]_vars

\* the last operation was update_timers, and the time that had passed since
\* the time reference when it read the clock (in units of 1/3 ms)
Ticked == hist.op = "update_timers"
Elapsed == clock - hist.cpu.time

\* 1/60 s, rounded down to the unit of time: 16.66 ms
Quantum == (1000 * 3) \div 60

\* each timer went down by one if it was positive, and the time reference
\* is the time of the call
Decremented ==
    /\ cpu.delay_timer = IF hist.cpu.delay_timer > 0 THEN hist.cpu.delay_timer - 1 ELSE 0
    /\ cpu.sound_timer = IF hist.cpu.sound_timer > 0 THEN hist.cpu.sound_timer - 1 ELSE 0
    /\ cpu.time = clock

\* C3 as claimed: a call of update_timers made less than 1/60 s after the
\* time reference changes no timer and not the time reference.
C3_NoTickWithinSixtieth ==
    (Ticked /\ Elapsed * 60 < 1000 * 3) => cpu = hist.cpu

\* C3, amended: the threshold is 16 ms.  A call made less than 16 ms after the
\* time reference changes nothing; a call made 16 ms or more after it takes
\* one from each positive timer and moves the time reference to now.
C3_NoTickWithin16ms ==
    /\ (Ticked /\ Elapsed < from_millis(16)) => cpu = hist.cpu
    /\ (Ticked /\ Elapsed >= from_millis(16)) => Decremented

\* a call 15.67 ms after a tick that decremented: a running timer stays put
C3_Witness ==
    /\ Ticked /\ Elapsed = from_millis(16) - 1
    /\ hist.cpu.time > 0
    /\ hist.cpu.delay_timer > 0
    /\ cpu = hist.cpu

\* a call 16 ms after the time reference, less than 1/60 s: the timer ticks
C3_WitnessTick ==
    /\ Ticked /\ Elapsed = from_millis(16) /\ Elapsed < Quantum
    /\ hist.cpu.delay_timer = 2 /\ cpu.delay_timer = 1


(***************************************************************************)
(* Sprites: roms that point index at two bytes of their own, set V0 and    *)
(* draw the sprite twice at column V0 % 64, row V0 % 32.                   *)
(***************************************************************************)
\* the two rows of the sprite
SpriteData == { << 15, 255 >>, << 129, 0 >>, << 0, 0 >> }

\* V0: the top left corner, the bottom row, the last four columns
SpritePlaces == {0, 31, 60}

\* the number of rows drawn
SpriteRows == {0, 1, 2}

\* A208 (index = 0x208), 60vv, D00n, D00n, and the sprite at 0x208; a rom
\* that draws three times in a row: A206, D001, D001, D001, whose sprite is
\* the byte 0xD0 at 0x206; and a rom that draws that byte at column 0 and
\* again at column 1, where it overlaps in one pixel: A206, D011, 6001, D011
DrawRoms ==
    { << 162, 8, 96, v, 208, n, 208, n >> \o d :
        v \in SpritePlaces, n \in SpriteRows, d \in SpriteData }
        \cup { << 162, 6, 208, 1, 208, 1, 208, 1 >>,
               << 162, 6, 208, 17, 96, 1, 208, 17 >> }

LoadDraw == Load(DrawRoms)

NextDraw == LoadDraw \/ StepSome

SpecDraw == Init /\ [][NextDraw]_vars

\* the last two operations were completed steps of the same DXYN, with index
\* and the registers X and Y the same before both
DoubleDraw ==
    /\ Stepped /\ Family(hist.opcode) = 13
    /\ hist2.op = "step" /\ hist2.ok /\ hist2.opcode = hist.opcode
    /\ hist2.index = hist.cpu.index
    /\ hist2.v_reg[HX] = OldVx
    /\ hist2.v_reg[HY] = OldVy

\* the place and the rows of the sprite of the last step
SpriteX == OldVx % 64
SpriteY == OldVy % 32
SpriteN == OpN(hist.opcode)
SpriteByte(i) == hist.cpu.ram[hist.cpu.index + i]

\* the pixel that column j of row i of the sprite falls on
PixelAt(i, j) == (SpriteY + i) * SCREEN_WIDTH + SpriteX + j

\* column j of row i of the sprite is on the screen
OnScreen(i, j) == SpriteY + i < SCREEN_HEIGHT /\ SpriteX + j < SCREEN_WIDTH

\* the sprite has a set bit
SpriteHasSetBit == \E i \in 0 .. SpriteN - 1 : SpriteByte(i) # 0

\* C4 as claimed: after the second draw every pixel of the location is zero,
\* and the flag register is 1 if the sprite has any set bit.
C4_DoubleDrawAsClaimed ==
    DoubleDraw =>
        /\ \A i \in 0 .. SpriteN - 1, j \in 0 .. 7 :
              OnScreen(i, j) => screen.pixels[PixelAt(i, j)] = 0
        /\ SpriteHasSetBit => cpu.v_reg[15] = 1

\* C4, amended: after the second draw the pixels are what they were before
\* the first (all zero where the screen was blank), and the flag register is 1
\* exactly when a set bit of the sprite falls on the screen, on a pixel that
\* was off before the first draw; bits clipped at the right or the bottom
\* edge do not count.
C4_DoubleDrawRestores ==
    DoubleDraw =>
        /\ screen.pixels = hist2.pixels
        /\ cpu.v_reg[15] =
              IF \E i \in 0 .. SpriteN - 1, j \in 0 .. 7 :
                    /\ OnScreen(i, j)
                    /\ Bit(SpriteByte(i), 7 - j) = 1
                    /\ hist2.pixels[PixelAt(i, j)] = 0
              THEN 1 ELSE 0

\* the sprite 0x81 drawn twice at the top left corner: the second draw finds
\* its two pixels lit, puts them out and sets the flag
C4_Witness ==
    /\ DoubleDraw /\ SpriteN = 1 /\ SpriteX = 0 /\ SpriteY = 0
    /\ SpriteByte(0) = 129
    /\ hist.screen.pixels[0] = 1 /\ hist.screen.pixels[7] = 1
    /\ screen.pixels[0] = 0 /\ screen.pixels[7] = 0
    /\ cpu.v_reg[15] = 1

\* the second and the third of three draws in a row: the pixels are lit
\* again, as they were before the second draw, and the flag is 0
C4_WitnessLit ==
    /\ DoubleDraw /\ SpriteN = 1 /\ SpriteByte(0) = 208
    /\ hist2.pixels[0] = 1
    /\ screen.pixels[0] = 1
    /\ cpu.v_reg[15] = 0

\* the sprite 0x0F drawn twice at column 60: its four set bits are clipped,
\* and the flag is 0
C4_WitnessClipped ==
    /\ DoubleDraw /\ SpriteN = 1 /\ SpriteX = 60
    /\ SpriteByte(0) = 15
    /\ cpu.v_reg[15] = 0


(***************************************************************************)
(* The dirty flag: roms that clear the screen or draw a sprite and then    *)
(* run one more instruction, of every kind.                                *)
(***************************************************************************)
\* 00E0, and D011 (one row of the sprite at index, which is 0)
DisplayOps == { << 0, 224 >>, << 208, 17 >> }

\* 6001, 7001, 8014, 3000, A200, 1206, C0FF, F007, F01E, 0000, 00E0, D011
AfterOps ==
    { << 96, 1 >>, << 112, 1 >>, << 128, 20 >>, << 48, 0 >>, << 162, 0 >>,
      << 18, 6 >>, << 192, 255 >>, << 240, 7 >>, << 240, 30 >>, << 0, 0 >>,
      << 0, 224 >>, << 208, 17 >> }

\* A200 D011 D011 draws the byte 0xA2 twice: the second draw changes pixels too
DirtyRoms ==
    { d \o a : d \in DisplayOps, a \in AfterOps }
        \cup { << 162, 0, 208, 17, 208, 17, 96, 1 >> }

LoadDirty == Load(DirtyRoms)

NextDirty == LoadDirty \/ StepSome

SpecDirty == Init /\ [][NextDirty]_vars

\* the instruction clears the screen (00E0) or draws a sprite (DXYN)
IsDisplayOp(opcode) ==
    \/ Family(opcode) = 13
    \/ Family(opcode) = 0 /\ OpNN(opcode) = 224

\* C11: after every completed step has_drawn() is true exactly when the
\* instruction of that step was a screen clear or a sprite draw; so a true
\* value is gone after the next step unless that step clears or draws too.
C11_DirtyFlag ==
    Stepped => (has_drawn(cpu) <=> IsDisplayOp(hist.opcode))

\* a step that found the flag set by the step before it and executed
\* something else than a clear or a draw: the flag is reset
C11_Witness ==
    /\ Stepped /\ has_drawn(hist.cpu)
    /\ ~IsDisplayOp(hist.opcode)
    /\ ~has_drawn(cpu)

\* a draw that follows a draw: the flag is set again
C11_WitnessAgain ==
    /\ Stepped /\ has_drawn(hist.cpu)
    /\ Family(hist.opcode) = 13
    /\ has_drawn(cpu)


(***************************************************************************)
(* The timers between the instructions that set them (under SpecTimers).   *)
(***************************************************************************)
\* the last operation was a completed step of FX15, of FX18
SetDelayStep == Stepped /\ Family(hist.opcode) = 15 /\ HNN = 21
SetSoundStep == Stepped /\ Family(hist.opcode) = 15 /\ HNN = 24

\* C12: a completed step that is not FX15 leaves delay_timer unchanged, one
\* that is not FX18 leaves sound_timer unchanged, and update_timers leaves
\* each timer equal or lower: a timer goes up only when its own instruction
\* sets it.
C12_TimersOnlySetExplicitly ==
    /\ (Stepped /\ ~SetDelayStep) => cpu.delay_timer = hist.cpu.delay_timer
    /\ (Stepped /\ ~SetSoundStep) => cpu.sound_timer = hist.cpu.sound_timer
    /\ Ticked => /\ cpu.delay_timer <= hist.cpu.delay_timer
                 /\ cpu.sound_timer <= hist.cpu.sound_timer

\* FX18 raises the sound timer while the delay timer, which has been set and
\* has ticked down once, stays where it is
C12_Witness ==
    /\ SetSoundStep
    /\ cpu.sound_timer > hist.cpu.sound_timer
    /\ hist.cpu.delay_timer = 1 /\ cpu.delay_timer = 1

\* a tick that takes both running timers down
C12_WitnessTick ==
    /\ Ticked
    /\ cpu.delay_timer < hist.cpu.delay_timer
    /\ cpu.sound_timer < hist.cpu.sound_timer


(***************************************************************************)
(* Loading: every rom of up to MaxRomLen bytes drawn from RomBytes, and    *)
(* one rom that is a byte too long for the memory above START_PGM.         *)
(***************************************************************************)
RomBytes == {0, 80, 255}

\* the roms of exactly n bytes
RECURSIVE RomsOfLen(_)
RomsOfLen(n) ==
    IF n = 0 THEN { << >> }
    ELSE { Append(r, b) : r \in RomsOfLen(n - 1), b \in RomBytes }

ShortRoms == UNION { RomsOfLen(n) : n \in 0 .. MaxRomLen }

OversizeRom == [i \in 1 .. RAM_SIZE - START_PGM + 1 |-> 255]

LoadAny == Load(ShortRoms \cup {OversizeRom})

NextLoad == LoadAny

SpecLoad == Init /\ [][NextLoad]_vars

\* the last operation was a load_rom that completed
Loaded == hist.op = "load_rom" /\ hist.ok

\* C13: after load_rom on a fresh machine, with a rom of L bytes that fits,
\* ram[0x200 + i] is byte i of the rom for every i < L, ram[0x50 .. 0x9F] is
\* the font, every other byte of ram is 0, and nothing but ram has changed:
\* pc is 0x200, sp is 0, the registers, index and the timers are as created.
C13_LoadLayout ==
    Loaded =>
        /\ \A a \in 0 .. RAM_SIZE - 1 :
              cpu.ram[a] =
                  IF a >= 512 /\ a < 512 + Len(hist.rom) THEN hist.rom[a - 512 + 1]
                  ELSE IF a >= 80 /\ a <= 159 THEN fontset[a - 80 + 1]
                  ELSE 0
        /\ cpu = [hist.cpu EXCEPT !.ram = cpu.ram]
        /\ cpu.pc = 512 /\ cpu.sp = 0 /\ cpu.index = 0
        /\ cpu.delay_timer = 0 /\ cpu.sound_timer = 0
        /\ \A i \in 0 .. NUM_REGS - 1 : cpu.v_reg[i] = 0

\* a rom of MaxRomLen bytes that ends in 0xFF: its last byte is in place, the
\* byte after it is 0, and the font starts with 0xF0 and ends with 0x80
C13_Witness ==
    /\ Loaded /\ Len(hist.rom) = MaxRomLen
    /\ hist.rom[MaxRomLen] = 255
    /\ cpu.ram[512 + MaxRomLen - 1] = 255
    /\ cpu.ram[512 + MaxRomLen] = 0
    /\ cpu.ram[80] = 240 /\ cpu.ram[159] = 128

\* the rom that does not fit: load_rom panics
C13_WitnessOversize ==
    /\ hist.op = "load_rom" /\ ~hist.ok
    /\ Len(hist.rom) > RAM_SIZE - START_PGM
    /\ status = "panicked"


(***************************************************************************)
(* Immediates: roms that set a register and add to it, on V0 and on VF,    *)
(* and a rom that sets VF before an add that wraps.                        *)
(***************************************************************************)
ImmRegs == {0, 15}
ImmVals == {1, 200, 255}

\* 6Xaa 7Xbb, and 6F01 60FF 7001
ImmRoms ==
    { << 96 + x, a, 112 + x, b >> : x \in ImmRegs, a \in ImmVals, b \in ImmVals }
        \cup { << 111, 1, 96, 255, 112, 1 >> }

LoadImm == Load(ImmRoms)

NextImm == LoadImm \/ StepNone

SpecImm == Init /\ [][NextImm]_vars

\* the rom 60 01 70 01 is loaded and the last operation was its second step
SteppedTwiceThroughAddTest ==
    /\ Stepped /\ nsteps = 2
    /\ cpu.ram[512] = 96 /\ cpu.ram[513] = 1
    /\ cpu.ram[514] = 112 /\ cpu.ram[515] = 1

\* C14: a step of 6XNN changes register x to NN, a step of 7XNN changes
\* register x to (old VX + NN) mod 256, and either changes nothing else but
\* program_counter, which goes up by 2: no other register, and not the flag
\* register when x # 15.  So 60 01 70 01 stepped twice leaves V0 = 2 and
\* program_counter = 0x204.
C14_Immediates ==
    /\ (Stepped /\ Family(hist.opcode) = 6) =>
          cpu = [hist.cpu EXCEPT !.pc = @ + 2, !.has_drawn = FALSE,
                                 !.v_reg[HX] = HNN]
    /\ (Stepped /\ Family(hist.opcode) = 7) =>
          cpu = [hist.cpu EXCEPT !.pc = @ + 2, !.has_drawn = FALSE,
                                 !.v_reg[HX] = (OldVx + HNN) % 256]
    /\ SteppedTwiceThroughAddTest => cpu.v_reg[0] = 2 /\ cpu.pc = 516

\* 255 + 1 on V0 while VF is 1: V0 wraps to 0 and VF is still 1
C14_Witness ==
    /\ Stepped /\ Family(hist.opcode) = 7 /\ HX = 0
    /\ OldVx = 255 /\ HNN = 1
    /\ hist.cpu.v_reg[15] = 1
    /\ cpu.v_reg[0] = 0 /\ cpu.v_reg[15] = 1
    /\ cpu.pc = hist.cpu.pc + 2

\* the end-to-end run: V0 = 2 and program_counter = 0x204
C14_WitnessAddTest ==
    SteppedTwiceThroughAddTest /\ cpu.v_reg[0] = 2 /\ cpu.pc = 516


(***************************************************************************)
(* main: it loads a rom file, which may fail to open or to read, and then  *)
(* runs its loop of steps and timer updates.                               *)
(***************************************************************************)
\* a file that does not open, one that opens and fails while it is read
\* (some of its bytes may have been read by then), and two that load
RomFiles ==
    { [opens |-> FALSE, reads |-> FALSE, bytes |-> << >>],
      [opens |-> TRUE, reads |-> FALSE, bytes |-> << 96, 2 >>],
      [opens |-> TRUE, reads |-> TRUE, bytes |-> << 96, 2, 240, 21 >>],
      [opens |-> TRUE, reads |-> TRUE, bytes |-> << 0, 224 >>] }

LoadRomFile == LoadFile(RomFiles)

NextMain == LoadRomFile \/ StepSome \/ UpdateTimers

SpecMain == Init /\ [][NextMain]_vars

\* the last operation was a load_rom_file that returned an error
LoadFailed == hist.op = "load_rom_file_err"

\* C15: when load_rom_file returns an error the Cpu is as it was before the
\* call, and main has left: from then on nothing happens, no step and no
\* update_timers.
C15_LoadFailureStopsMain ==
    /\ [](LoadFailed => (cpu = hist.cpu /\ hist.ok /\ status = "load_failed"))
    /\ [][~LoadFailed]_vars

\* the file opened and the read failed: the Cpu is as created and main is over
C15_Witness ==
    /\ LoadFailed
    /\ Len(hist.rom) > 0
    /\ cpu = CpuNew(0)
    /\ status = "load_failed" /\ nsteps = 0 /\ clock = 0


(***************************************************************************)
(* What a call writes (under SpecCall).                                    *)
(***************************************************************************)
\* the last operation was a completed step of 2NNN
CallStep == Stepped /\ IsCall(hist.opcode)

\* C16: a call fetched at address A with stack pointer S writes the low byte
\* of A + 2 to ram[S] and its high byte to ram[S + 1] and no other byte of
\* ram, and leaves stack_pointer at S + 2 and program_counter at NNN.
C16_CallPushes ==
    CallStep =>
        /\ cpu.ram = [hist.cpu.ram EXCEPT
                         ![hist.cpu.sp] = (hist.cpu.pc + 2) % 256,
                         ![hist.cpu.sp + 1] = (hist.cpu.pc + 2) \div 256]
        /\ cpu.sp = hist.cpu.sp + 2
        /\ cpu.pc = OpNNN(hist.opcode)

\* the call at 0x204 inside a subroutine: 0x06 and 0x02 go to ram[2], ram[3]
C16_Witness ==
    /\ CallStep
    /\ hist.cpu.pc = 516 /\ hist.cpu.sp = 2
    /\ cpu.ram[2] = 6 /\ cpu.ram[3] = 2
    /\ cpu.sp = 4 /\ cpu.pc = 520


(***************************************************************************)
(* Where a draw writes (under SpecDraw).                                   *)
(***************************************************************************)
\* the last operation was a completed step of DXYN
DrawStep == Stepped /\ Family(hist.opcode) = 13

\* the column and the row of pixel p
ColOf(p) == p % SCREEN_WIDTH
RowOf(p) == p \div SCREEN_WIDTH

\* pixel p lies in the rectangle of the sprite of the last step, cut at the
\* right and the bottom edge of the screen
InSpriteRect(p) ==
    /\ SpriteX <= ColOf(p) /\ ColOf(p) <= SpriteX + 7 /\ ColOf(p) <= 63
    /\ SpriteY <= RowOf(p) /\ RowOf(p) <= SpriteY + SpriteN - 1 /\ RowOf(p) <= 31

\* C17: a draw with origin (VX mod 64, VY mod 32) changes no pixel outside
\* the columns cx .. min(63, cx + 7) and the rows cy .. min(31, cy + N - 1):
\* the bits of the sprite past column 63 or row 31 are dropped, not wrapped.
C17_DrawClips ==
    DrawStep =>
        \A p \in 0 .. SCREEN_WIDTH * SCREEN_HEIGHT - 1 :
            ~InSpriteRect(p) => screen.pixels[p] = hist.screen.pixels[p]

\* the sprite 0x0F drawn at column 60 of a blank screen: its four set bits
\* are past column 63, and the left edge of the row stays dark
C17_Witness ==
    /\ DrawStep /\ SpriteN >= 1 /\ SpriteX = 60
    /\ SpriteByte(0) = 15
    /\ \A c \in 0 .. 3 : screen.pixels[SpriteY * SCREEN_WIDTH + c] = 0

\* two rows drawn from row 31: the second row, 0xFF, is past the bottom
\* edge, and the top row of the screen stays dark
C17_WitnessBottom ==
    /\ DrawStep /\ SpriteN = 2 /\ SpriteY = 31
    /\ SpriteByte(1) = 255
    /\ \A c \in 0 .. SCREEN_WIDTH - 1 : screen.pixels[c] = 0
    /\ \E c \in 0 .. SCREEN_WIDTH - 1 : screen.pixels[31 * SCREEN_WIDTH + c] = 1


(***************************************************************************)
(* What a draw writes, and the collision flag (under SpecDraw).            *)
(***************************************************************************)
\* bit j (from the left) of row i of the sprite of the last step
SpriteBit(i, j) == Bit(SpriteByte(i), 7 - j)

\* a set bit of the sprite falls, on the screen, on a pixel that was lit
\* before the draw
Collides ==
    \E i \in 0 .. SpriteN - 1, j \in 0 .. 7 :
        /\ OnScreen(i, j)
        /\ SpriteBit(i, j) = 1
        /\ hist.screen.pixels[PixelAt(i, j)] = 1

\* C18: after a draw every pixel a bit of the sprite falls on (on the screen)
\* is the old pixel XOR that bit, and the flag register is 1 if and only if
\* some set bit fell on a pixel that was 1 before the draw, whatever the flag
\* register held before the instruction.
C18_DrawCollision ==
    DrawStep =>
        /\ \A i \in 0 .. SpriteN - 1, j \in 0 .. 7 :
              OnScreen(i, j) =>
                  screen.pixels[PixelAt(i, j)] =
                      (hist.screen.pixels[PixelAt(i, j)] + SpriteBit(i, j)) % 2
        /\ cpu.v_reg[15] = IF Collides THEN 1 ELSE 0

\* 0xD0 drawn at column 1 over the same byte at column 0: pixel 1 is the one
\* collision and goes dark, pixels 2 and 4 light up, pixels 0 and 3 stay lit
C18_Witness ==
    /\ DrawStep /\ SpriteN = 1 /\ SpriteX = 1 /\ SpriteY = 0
    /\ SpriteByte(0) = 208
    /\ hist.screen.pixels[0] = 1 /\ hist.screen.pixels[1] = 1
    /\ hist.screen.pixels[2] = 0 /\ hist.screen.pixels[3] = 1
    /\ screen.pixels[0] = 1 /\ screen.pixels[1] = 0 /\ screen.pixels[2] = 1
    /\ screen.pixels[3] = 1 /\ screen.pixels[4] = 1
    /\ cpu.v_reg[15] = 1

\* a draw that starts with the flag at 1 and meets no lit pixel: the flag is 0
C18_WitnessReset ==
    /\ DrawStep /\ hist.cpu.v_reg[15] = 1
    /\ \E i \in 0 .. SpriteN - 1, j \in 0 .. 7 : OnScreen(i, j) /\ SpriteBit(i, j) = 1
    /\ ~Collides
    /\ cpu.v_reg[15] = 0


(***************************************************************************)
(* What a tick does to the timers and to the time reference (under         *)
(* SpecTimers).  The quantum of the code is 16 ms.                         *)
(***************************************************************************)
TimerQuantum == from_millis(TIMER_MILLIS)

\* C19: an update_timers for which at least one quantum has elapsed takes
\* exactly 1 from each positive timer, however many quanta have elapsed,
\* leaves a timer that is 0 at 0, and sets the time reference to the current
\* time; one for which less than a quantum has elapsed leaves the time
\* reference where it was, so that the elapsed time keeps accumulating.
C19_TickTakesOne ==
    /\ (Ticked /\ Elapsed >= TimerQuantum) =>
          /\ hist.cpu.delay_timer > 0 => cpu.delay_timer = hist.cpu.delay_timer - 1
          /\ hist.cpu.sound_timer > 0 => cpu.sound_timer = hist.cpu.sound_timer - 1
          /\ hist.cpu.delay_timer = 0 => cpu.delay_timer = 0
          /\ hist.cpu.sound_timer = 0 => cpu.sound_timer = 0
          /\ cpu.time = clock
    /\ (Ticked /\ Elapsed < TimerQuantum) => cpu.time = hist.cpu.time

\* more than three quanta have elapsed: the delay timer goes from 2 to 1,
\* and the sound timer, which is 0, stays at 0
C19_Witness ==
    /\ Ticked /\ Elapsed >= 3 * TimerQuantum
    /\ hist.cpu.delay_timer = 2 /\ cpu.delay_timer = 1
    /\ hist.cpu.sound_timer = 0 /\ cpu.sound_timer = 0
    /\ cpu.time = clock

\* two calls less than a quantum apart: the first was too early and left the
\* time reference alone, the second finds a quantum elapsed and ticks
C19_WitnessAccumulates ==
    /\ Ticked /\ hist2.op = "update_timers"
    /\ hist.clock > hist.cpu.time
    /\ clock - hist.clock < TimerQuantum
    /\ Elapsed >= TimerQuantum
    /\ hist.cpu.delay_timer > 0 /\ cpu.delay_timer = hist.cpu.delay_timer - 1


(***************************************************************************)
(* The key wait under a driver that keeps calling step, as the loop of     *)
(* main does: while program_counter is parked on FX0A the steps are not    *)
(* counted, and the driver does not stop taking them.  The user presses    *)
(* and releases keys between the steps, or does not.                       *)
(***************************************************************************)
\* program_counter of c is on an FX0A
Parked(c) == Family(NextOpcode(c)) = 15 /\ OpNN(NextOpcode(c)) = 10

\* the driver calls step once more while the program waits for a key
KeepStepping ==
    /\ status = "running"
    /\ \E opcode \in {NextOpcode(cpu)} :
          /\ Family(opcode) = 15 /\ OpNN(opcode) = 10
          /\ \E r \in {step(cpu, screen, TRUE, 0, build.overflow_checks)} :
                /\ cpu' = r.cpu
                /\ screen' = r.screen
                /\ status' = IF r.ok THEN "running" ELSE "panicked"
                /\ hist' = Record("step", opcode, TRUE, r.ok)
    /\ hist2' = Brief(hist)
    /\ UNCHANGED << clock, build, calls, nsteps, nupdates, frame >>

\* the steps the driver takes once the program is past the wait
StepOn == ~Parked(cpu) /\ StepSome

\* between two steps the user presses or releases one key, or closes the
\* window
KeyBatches ==
    { << e >> : e \in {ev \in Events : ev.keycode # "Space"} }

PressOrRelease == ScreenUpdate({FALSE}, KeyBatches)

NextWait == LoadKeys \/ KeepStepping \/ StepOn \/ PressOrRelease

SpecWait == Init /\ [][NextWait]_vars /\ WF_vars(KeepStepping)

\* the program waits and has captured no key yet
WaitingForKey == status = "running" /\ Parked(cpu) /\ cpu.last_key = None

\* the program waits for the release of the key it captured
Awaiting == status = "running" /\ IsSome(cpu.last_key)

\* some key is down
SomeKeyDown == \E k \in 0 .. NUM_KEYS - 1 : screen.keypad[k]

\* the captured key, if there is one, is up
CapturedKeyUp == IsSome(cpu.last_key) => ~screen.keypad[Unwrap(cpu.last_key)]

\* the wait has just completed with the key that was captured
Completed ==
    /\ WaitStep
    /\ IsSome(hist.cpu.last_key)
    /\ cpu.v_reg[HX] = Unwrap(hist.cpu.last_key)
    /\ cpu.last_key = None
    /\ cpu.pc = hist.cpu.pc + 2

\* C20: while the driver keeps calling step on a program parked on FX0A,
\*   - if some key is down, and stays down until a step has seen it, a key
\*     is captured;
\*   - if the captured key is up, and stays up until a step has seen it, the
\*     wait completes: register x holds the captured key, no key is awaited
\*     and program_counter is past the FX0A.
C20_KeyWaitCompletes ==
    /\ [](( WaitingForKey /\ [](status = "running" /\ SomeKeyDown) ) => <>Awaiting)
    /\ [](( Awaiting /\ [](status = "running" /\ CapturedKeyUp) ) => <>Completed)

\* key 1 was captured, the user released it, and the next step completed the
\* wait with V1 (9 before) holding 1
C20_Witness ==
    /\ Completed /\ HX = 1
    /\ hist.cpu.last_key = Some(1)
    /\ hist.cpu.v_reg[1] = 9
    /\ hist2.op = "update"
    /\ nsteps = 1


(***************************************************************************)
(* The loop of main: ipf steps, then update_timers, then Screen::update,   *)
(* frame after frame.                                                      *)
(***************************************************************************)
\* the values of --ips: 39 gives no step per frame, 40 gives one, 80 and 119
\* give two
IpsChoices == {39, 40, 80, 119}

\* the time between two calls of update_timers: none, or more than 16 ms
FrameElapsed == {0, 50}

\* what the event pump holds when the frame is over: nothing, or the Quit
\* event
FrameBatches == { << >>, << [kind |-> "Quit", keycode |-> ""] >> }

\* programs that clear the screen first, last, or never
FrameRoms ==
    { << 0, 224, 96, 1, 97, 2, 98, 3 >>,
      << 96, 1, 0, 224, 97, 2, 0, 224 >>,
      << 96, 1, 97, 2, 98, 3, 99, 4 >> }

FrameFiles ==
    { [opens |-> TRUE, reads |-> TRUE, bytes |-> rom] : rom \in FrameRoms }
        \cup { [opens |-> FALSE, reads |-> FALSE, bytes |-> << >>] }

\* main parses its options, loads the rom file and computes ipf
MainStart ==
    /\ status = "new"
    /\ \E f \in FrameFiles, ips \in IpsChoices :
          LET r == load_rom_file(cpu, f)
          IN  /\ cpu' = r.cpu
              /\ status' = IF r.ok THEN main_after_load(r.result) ELSE "panicked"
              /\ hist' = [Record(IF r.result = "Err" THEN "load_rom_file_err"
                                 ELSE "load_rom_file", 0, FALSE, r.ok)
                            EXCEPT !.rom = f.bytes]
              /\ frame' = IF r.ok /\ r.result = "Ok"
                          THEN [FrameNew EXCEPT !.ips = ips,
                                                !.ipf = instructions_per_frame(ips),
                                                !.at = "steps"]
                          ELSE [FrameNew EXCEPT !.ips = ips]
    /\ hist2' = Brief(hist)
    /\ UNCHANGED << screen, clock, build, calls, nsteps, nupdates >>

\* one turn of `for _ in 0..ipf`
FrameStep ==
    /\ status = "running"
    /\ frame.at = "steps"
    /\ frame.steps < frame.ipf
    /\ \E rnd \in RandomInputs(NextOpcode(cpu)) :
          LET r == step(cpu, screen, TRUE, rnd, build.overflow_checks)
          IN  /\ cpu' = r.cpu
              /\ screen' = r.screen
              /\ status' = IF r.ok THEN "running" ELSE "panicked"
              /\ hist' = Record("step", NextOpcode(cpu), TRUE, r.ok)
              /\ calls' = IF r.ok THEN CallsAfter(calls, cpu, NextOpcode(cpu)) ELSE calls
              /\ frame' = [frame EXCEPT !.steps = @ + 1,
                                        !.draw = frame_draw(@, r.cpu),
                                        !.reported = @ \/ has_drawn(r.cpu)]
    /\ hist2' = Brief(hist)
    /\ nsteps' = nsteps + 1
    /\ UNCHANGED << clock, build, nupdates >>

\* the for loop is over: cpu.update_timers()
FrameTimers ==
    /\ status = "running"
    /\ frame.at = "steps"
    /\ ~(frame.steps < frame.ipf)
    /\ \E d \in IF clock < MaxClock THEN FrameElapsed ELSE {0} :
          /\ clock' = clock + d
          /\ cpu' = update_timers(cpu, clock + d)
    /\ hist' = Record("update_timers", 0, FALSE, TRUE)
    /\ hist2' = Brief(hist)
    /\ frame' = [frame EXCEPT !.ticks = @ + 1,
                              !.steps_at_tick = frame.steps,
                              !.at = "update"]
    /\ UNCHANGED << screen, build, status, calls, nsteps, nupdates >>

\* screen.update(draw), the sleep, and the next turn of the loop
FrameUpdate ==
    /\ status = "running"
    /\ frame.at = "update"
    /\ nupdates < MaxUpdates
    /\ \E evs \in FrameBatches :
          LET r == update(screen, frame.draw, evs)
          IN  /\ screen' = r.screen
              /\ status' = IF r.exit THEN "exited" ELSE "running"
    /\ hist' = Record("update", 0, FALSE, TRUE)
    /\ hist2' = Brief(hist)
    /\ nupdates' = nupdates + 1
    /\ frame' = [frame EXCEPT !.at = "steps", !.draw = FALSE,
                              !.steps = 0, !.ticks = 0, !.steps_at_tick = 0,
                              !.reported = FALSE,
                              !.frames = @ + 1,
                              !.last = [ steps |-> frame.steps,
                                         ticks |-> frame.ticks,
                                         steps_at_tick |-> frame.steps_at_tick,
                                         reported |-> frame.reported,
                                         told |-> frame.draw ]]
    /\ UNCHANGED << cpu, clock, build, calls, nsteps >>

NextFrame == MainStart \/ FrameStep \/ FrameTimers \/ FrameUpdate

SpecFrame == Init /\ [][NextFrame]_vars

\* C21: once main is in its loop,
\*   - a frame never has more than floor(ips / 40) steps nor more than one
\*     update_timers, and its update_timers comes when all floor(ips / 40)
\*     steps have been made;
\*   - every frame that reached its Screen::update had exactly
\*     floor(ips / 40) steps, then one update_timers, and told Screen::update
\*     to draw exactly when one of its steps reported has_drawn();
\*   - Screen::update follows an update_timers immediately, and an
\*     update_timers never follows another one.
C21_FrameOrder ==
    frame.at # "start" =>
        /\ frame.steps <= frame.ips \div 40
        /\ frame.ticks <= 1
        /\ frame.ticks = 1 =>
              /\ frame.steps = frame.ips \div 40
              /\ frame.steps_at_tick = frame.ips \div 40
        /\ frame.frames > 0 =>
              /\ frame.last.steps = frame.ips \div 40
              /\ frame.last.ticks = 1
              /\ frame.last.steps_at_tick = frame.ips \div 40
              /\ frame.last.told = frame.last.reported
        /\ hist.op = "update" => hist2.op = "update_timers"
        /\ hist.op = "update_timers" => hist2.op # "update_timers"
        /\ (hist.op = "step" /\ frame.steps > 1) => hist2.op = "step"

\* --ips 80: the first of the two steps of the frame cleared the screen, the
\* second did not, and Screen::update was told to draw
C21_Witness ==
    /\ hist.op = "update"
    /\ frame.ips = 80 /\ frame.last.steps = 2 /\ frame.last.ticks = 1
    /\ frame.last.reported /\ frame.last.told
    /\ ~has_drawn(cpu)

\* --ips 39: a frame without any step, and nothing to draw
C21_WitnessNoStep ==
    /\ hist.op = "update"
    /\ frame.ips = 39 /\ frame.last.steps = 0 /\ frame.last.ticks = 1
    /\ ~frame.last.told


(***************************************************************************)
(* FX55 and FX65: programs that set registers and index, store or load a   *)
(* block of registers, and load it back; stepped without a Screen.         *)
(***************************************************************************)
\* V0 = v; I = 0x2F0 + x; FX55; FX65 right behind the block
BlockSizes == {0, 2, 15}
BlockValues == {1, 255}
StoreLoadRoms ==
    { << 96, v, 162, 240 + x, 240 + x, 85, 240 + x, 101 >> :
        v \in BlockValues, x \in BlockSizes }

BlockRoms ==
    StoreLoadRoms \cup
    { << 96, 7, 97, 9, 163, 0, 241, 85 >>,       \* V0 = 7; V1 = 9; I = 0x300; F155
      << 160, 80, 242, 101, 241, 85, 240, 101 >>, \* I = 0x50; F265; F155; F065
      << 111, 5, 163, 0, 255, 85, 255, 101 >>,    \* VF = 5; I = 0x300; FF55; FF65
      << 96, 7, 240, 85, 160, 0, 240, 101 >>,     \* V0 = 7; F055 at 0; I = 0; F065
      << 162, 0, 243, 101, 162, 1, 243, 85 >>,    \* I = 0x200; F365; I = 0x201; F355
      << 175, 255, 240, 85 >>,                    \* I = 0xFFF; F055
      << 175, 255, 241, 85 >>,                    \* I = 0xFFF; F155 runs off the ram
      << 175, 254, 242, 101 >> }                  \* I = 0xFFE; F265 runs off the ram

LoadBlock == Load(BlockRoms)

NextBlock == LoadBlock \/ StepNone

SpecBlock == Init /\ [][NextBlock]_vars

\* the last operation was a completed FX55, or a completed FX65
StoreStep == Stepped /\ Family(hist.opcode) = 15 /\ HNN = 85
LoadStep == Stepped /\ Family(hist.opcode) = 15 /\ HNN = 101

\* the Cpu c with index at i and every register changed
Scrambled(c, i) ==
    [c EXCEPT !.index = i, !.v_reg = [r \in 0 .. NUM_REGS - 1 |-> 255 - c.v_reg[r]]]

\* C22: a completed FX55 with index = I leaves V0..Vx at ram[I .. I + x],
\* every other byte of ram and every register as they were, and index at
\* I + x + 1; a completed FX65 with index = I leaves ram[I .. I + x] in
\* V0..Vx, every register above x and all of ram as they were, and index at
\* I + x + 1; and an FX65 with index back at I after the FX55, whatever the
\* registers hold by then, gives V0..Vx the values they had before the FX55.
C22_BlockStoreLoad ==
    /\ StoreStep =>
          LET I == hist.cpu.index
              back == op_load(Scrambled(cpu, I), screen, hist.opcode)
          IN  /\ \A a \in 0 .. RAM_SIZE - 1 :
                    cpu.ram[a] = IF a >= I /\ a <= I + HX
                                 THEN hist.cpu.v_reg[a - I]
                                 ELSE hist.cpu.ram[a]
              /\ cpu.v_reg = hist.cpu.v_reg
              /\ cpu.index = I + HX + 1
              /\ back.ok
              /\ \A r \in 0 .. HX : back.cpu.v_reg[r] = hist.cpu.v_reg[r]
    /\ LoadStep =>
          LET I == hist.cpu.index
          IN  /\ \A r \in 0 .. NUM_REGS - 1 :
                    cpu.v_reg[r] = IF r <= HX THEN hist.cpu.ram[I + r]
                                   ELSE hist.cpu.v_reg[r]
              /\ cpu.ram = hist.cpu.ram
              /\ cpu.index = I + HX + 1

\* F155 with V0 = 7 and V1 = 9 at 0x300
C22_Witness ==
    /\ StoreStep /\ HX = 1
    /\ hist.cpu.index = 768
    /\ cpu.ram[768] = 7 /\ cpu.ram[769] = 9 /\ cpu.ram[770] = 0
    /\ cpu.index = 770

\* F265 on the glyph of 0: V0..V2 hold its first three rows
C22_WitnessLoad ==
    /\ LoadStep /\ HX = 2
    /\ hist.cpu.index = START_FONT
    /\ hist.cpu.v_reg[0] = 0
    /\ cpu.v_reg[0] = 240 /\ cpu.v_reg[1] = 144 /\ cpu.v_reg[2] = 144 /\ cpu.v_reg[3] = 0
    /\ cpu.index = START_FONT + 3

\* FF55 then FF65: all sixteen registers, and index has moved by 32
C22_WitnessAll ==
    /\ LoadStep /\ HX = 15
    /\ hist2.opcode = 65365
    /\ hist.cpu.v_reg[15] = 5 /\ cpu.v_reg[15] = 0
    /\ cpu.index = 768 + 32

\* F155 at 0xFFF runs off the ram
C22_WitnessPanic ==
    /\ hist.op = "step" /\ ~hist.ok
    /\ hist.opcode = 61781 /\ hist.cpu.index = 4095


(***************************************************************************)
(* FX33: programs that set a register, set index or leave it at 0, and     *)
(* store the BCD digits of the register; stepped without a Screen.         *)
(***************************************************************************)
BcdValues == {0, 1, 9, 10, 11, 99, 100, 101, 109, 110, 123, 199, 200, 249, 250, 255}

\* where the digits go: 0x300, the glyph of 0, the last three bytes of the
\* ram, and one byte further, which runs off the ram
BcdPlaces == { << 163, 0 >>, << 160, 80 >>, << 175, 253 >>, << 175, 254 >> }

BcdRoms ==
    { << 96, v, 163, 0, 240, 51 >> : v \in BcdValues }
        \cup { << 111, 123 >> \o p \o << 255, 51 >> : p \in BcdPlaces }
        \cup { << 101, 255, 245, 51 >> }

LoadBcd == Load(BcdRoms)

NextBcd == LoadBcd \/ StepNone

SpecBcd == Init /\ [][NextBcd]_vars

\* the last operation was a completed FX33
BcdStep == Stepped /\ Family(hist.opcode) = 15 /\ HNN = 51

\* C23: a completed FX33 with index = I and Vx = v leaves v / 100 at ram[I],
\* (v / 10) mod 10 at ram[I + 1] and v mod 10 at ram[I + 2]: three digits in
\* 0..9 with 100 * ram[I] + 10 * ram[I + 1] + ram[I + 2] = v; index, the
\* registers and every other byte of ram are as they were.
C23_Bcd ==
    BcdStep =>
        LET I == hist.cpu.index
            v == hist.cpu.v_reg[HX]
        IN  /\ cpu.ram[I] = v \div 100
            /\ cpu.ram[I + 1] = (v \div 10) % 10
            /\ cpu.ram[I + 2] = v % 10
            /\ \A k \in 0 .. 2 : cpu.ram[I + k] \in 0 .. 9
            /\ 100 * cpu.ram[I] + 10 * cpu.ram[I + 1] + cpu.ram[I + 2] = v
            /\ \A a \in 0 .. RAM_SIZE - 1 :
                  (a < I \/ a > I + 2) => cpu.ram[a] = hist.cpu.ram[a]
            /\ cpu.index = I
            /\ cpu.v_reg = hist.cpu.v_reg

\* V5 = 255 at index 0: the digits 2, 5, 5
C23_Witness ==
    /\ BcdStep /\ HX = 5
    /\ hist.cpu.v_reg[5] = 255 /\ hist.cpu.index = 0
    /\ cpu.ram[0] = 2 /\ cpu.ram[1] = 5 /\ cpu.ram[2] = 5

\* VF = 123 over the glyph of 0: its first three rows become 1, 2, 3 and its
\* fourth row stays
C23_WitnessFont ==
    /\ BcdStep /\ HX = 15
    /\ hist.cpu.index = START_FONT
    /\ hist.cpu.ram[START_FONT] = 240
    /\ cpu.ram[START_FONT] = 1 /\ cpu.ram[START_FONT + 1] = 2
    /\ cpu.ram[START_FONT + 2] = 3 /\ cpu.ram[START_FONT + 3] = 144

\* the last three bytes of the ram
C23_WitnessLast ==
    /\ BcdStep /\ hist.cpu.index = RAM_SIZE - 3 /\ cpu.ram[RAM_SIZE - 1] = 3

\* one byte further the step does not complete
C23_WitnessPanic ==
    /\ hist.op = "step" /\ ~hist.ok
    /\ hist.opcode = 65331 /\ hist.cpu.index = RAM_SIZE - 2


(***************************************************************************)
(* FX29: programs that set a register to a digit and ask for the address   *)
(* of its glyph; one of them overwrites the glyph of 0 first.  Stepped     *)
(* without a Screen.                                                       *)
(***************************************************************************)
FontDigits == 0 .. 15
FontRegs == {0, 10}

FontRoms ==
    { << 96 + x, d, 240 + x, 41 >> : d \in FontDigits, x \in FontRegs }
        \cup { << 96, 51, 240, 41 >>,            \* V0 = 51: the product is 255
               << 96, 52, 240, 41 >>,            \* V0 = 52: the product is no u8
               << 160, 80, 240, 51, 240, 41 >> } \* I = 0x50; F033; F029

LoadFont == Load(FontRoms)

NextFont == LoadFont \/ StepNone

SpecFont == Init /\ [][NextFont]_vars

\* the last operation was a completed FX29
FontStep == Stepped /\ Family(hist.opcode) = 15 /\ HNN = 41

\* the instructions that write to the ram: 2NNN, FX33 and FX55
WritesRam(opcode) ==
    \/ Family(opcode) = 2
    \/ Family(opcode) = 15 /\ OpNN(opcode) \in {51, 85}

\* at most two steps were made since the load, and none of them wrote to
\* the ram
NoWriteSinceLoad ==
    \/ nsteps = 0
    \/ nsteps = 1 /\ ~WritesRam(hist.opcode)
    \/ nsteps = 2 /\ ~WritesRam(hist.opcode) /\ ~WritesRam(hist2.opcode)

\* C24: a completed FX29 with Vx = d in 0..15 leaves index at 0x50 + 5 * d
\* and the ram as it was; and when nothing has written to the ram since the
\* load, the five bytes at index are glyph d of the font table.
C24_FontAddress ==
    (FontStep /\ hist.cpu.v_reg[HX] \in 0 .. 15) =>
        LET d == hist.cpu.v_reg[HX]
        IN  /\ cpu.index = 80 + 5 * d
            /\ cpu.ram = hist.cpu.ram
            /\ NoWriteSinceLoad =>
                  \A k \in 0 .. 4 : cpu.ram[cpu.index + k] = fontset[5 * d + k + 1]

\* VA = 15: index is 0x9B and the five bytes there are the glyph of F
C24_Witness ==
    /\ FontStep /\ HX = 10 /\ NoWriteSinceLoad
    /\ hist.cpu.v_reg[10] = 15
    /\ cpu.index = 155
    /\ << cpu.ram[155], cpu.ram[156], cpu.ram[157], cpu.ram[158], cpu.ram[159] >>
          = << 240, 128, 240, 128, 128 >>

\* after F033 over the glyph of 0, index is 0x50 and the bytes there are no
\* longer the glyph
C24_WitnessOverwritten ==
    /\ FontStep /\ ~NoWriteSinceLoad
    /\ hist.cpu.v_reg[HX] = 0
    /\ cpu.index = 80
    /\ cpu.ram[80] = 0 /\ fontset[1] = 240


(***************************************************************************)
(* 1NNN and BNNN: programs that jump, or set V0 and jump with offset;      *)
(* stepped without a Screen.                                               *)
(***************************************************************************)
\* the literals NNN, as the two nibbles-and-byte of the opcode
JumpTargets == { << 0, 0 >>, << 0, 1 >>, << 1, 35 >>, << 2, 0 >>, << 2, 4 >>, << 15, 255 >> }
JumpOffsets == {0, 1, 255}

JumpRoms ==
    { << 16 + t[1], t[2] >> : t \in JumpTargets }
        \cup { << 96, v, 176 + t[1], t[2] >> : v \in JumpOffsets, t \in JumpTargets }
        \cup { << 111, 9, 163, 33, 18, 6, 0, 0, 177, 35 >> }

LoadJump == Load(JumpRoms)

NextJump == LoadJump \/ StepNone

SpecJump == Init /\ [][NextJump]_vars

\* the last operation was a completed 1NNN, or a completed BNNN
JumpStep == Stepped /\ Family(hist.opcode) = 1
JumpV0Step == Stepped /\ Family(hist.opcode) = 11

\* C25: a completed 1NNN leaves program_counter at NNN, and a completed BNNN
\* leaves it at NNN + V0, a sum that may pass 0xFFF; both leave the stack
\* pointer, the registers, the ram and index as they were.
C25_Jumps ==
    /\ JumpStep =>
          /\ cpu.pc = OpNNN(hist.opcode)
          /\ cpu.sp = hist.cpu.sp
          /\ cpu.v_reg = hist.cpu.v_reg
          /\ cpu.ram = hist.cpu.ram
          /\ cpu.index = hist.cpu.index
    /\ JumpV0Step =>
          /\ cpu.pc = OpNNN(hist.opcode) + hist.cpu.v_reg[0]
          /\ cpu.sp = hist.cpu.sp
          /\ cpu.v_reg = hist.cpu.v_reg
          /\ cpu.ram = hist.cpu.ram
          /\ cpu.index = hist.cpu.index

\* the unit test jump_with_offset: V0 = 1, B001, program_counter is 2
C25_Witness ==
    /\ JumpV0Step /\ hist.opcode = 45057
    /\ hist.cpu.v_reg[0] = 1
    /\ cpu.pc = 2

\* BFFF with V0 = 255: program_counter is 0x10FE, past the end of the ram
C25_WitnessPastRam ==
    /\ JumpV0Step /\ hist.opcode = 49151
    /\ hist.cpu.v_reg[0] = 255
    /\ cpu.pc = 4350

\* 1206 over two instructions, then B123 with V0 = 0 and VF = 9
C25_WitnessJump ==
    /\ JumpStep /\ hist.opcode = 4614
    /\ cpu.pc = 518 /\ cpu.v_reg[15] = 9 /\ cpu.index = 801


(***************************************************************************)
(* The stack pointer: the roms with subroutines, stepped without a Screen  *)
(* while update_timers is called now and then, more than 16 ms after the   *)
(* call before.                                                            *)
(***************************************************************************)
LoadStack == Load(CallRoms)

\* update_timers, 16.67 ms after the clock was last read
TickLate == UpdateTimers /\ clock' = clock + 50

NextStack == LoadStack \/ StepNone \/ TickLate

SpecStack == Init /\ [][NextStack]_vars

\* C26: as long as no step has panicked, the stack pointer is even and is
\* twice the number of calls entered and not yet returned from; a completed
\* 2NNN adds 2 to it, a completed 00EE takes 2 from it, every other
\* completed step and every update_timers leave it as it was.
C26_StackPointer ==
    /\ status = "running" =>
          /\ cpu.sp % 2 = 0
          /\ cpu.sp = 2 * Len(calls)
    /\ Stepped =>
          cpu.sp = IF IsCall(hist.opcode) THEN hist.cpu.sp + 2
                   ELSE IF IsRet(hist.opcode) THEN hist.cpu.sp - 2
                   ELSE hist.cpu.sp
    /\ hist.op = "update_timers" => cpu.sp = hist.cpu.sp

\* a call nested in a call: the stack pointer is 4, and a timer update
\* leaves it there
C26_Witness ==
    /\ hist.op = "update_timers"
    /\ Len(calls) = 2 /\ cpu.sp = 4 /\ hist.cpu.sp = 4

\* back from a subroutine that stored V0 over the return address: the stack
\* pointer is 0 again
C26_WitnessReturn ==
    /\ Stepped /\ IsRet(hist.opcode)
    /\ hist2.opcode = 61525
    /\ hist.cpu.sp = 2 /\ cpu.sp = 0 /\ Len(calls) = 0

\* a return with nothing on the stack does not complete
C26_WitnessEmpty ==
    /\ hist.op = "step" /\ ~hist.ok
    /\ IsRet(hist.opcode) /\ hist.cpu.sp = 0


(***************************************************************************)
(* The awaited key: programs with an FX0A first, in the middle or alone,   *)
(* stepped with a Screen while the user presses and releases keys.         *)
(***************************************************************************)
AwaitRoms ==
    KeyRoms \cup { << 240, 10, 96, 5 >>,            \* F00A; V0 = 5
                   << 96, 5, 240, 10, 0, 224 >>,    \* V0 = 5; F00A; clear
                   << 240, 10, 241, 10 >> }         \* F00A; F10A

LoadAwait == Load(AwaitRoms)

NextAwait == LoadAwait \/ StepSome \/ PressOrRelease

SpecAwait == Init /\ [][NextAwait]_vars

\* C27: whenever a key is awaited and the process runs, program_counter is
\* on an FX0A and the awaited key is one of the sixteen keys; and every step
\* that began with a key awaited fetched an FX0A.
C27_AwaitedOnlyWhileParked ==
    /\ (status = "running" /\ IsSome(cpu.last_key)) =>
          /\ Parked(cpu)
          /\ Unwrap(cpu.last_key) \in 0 .. NUM_KEYS - 1
    /\ (hist.op = "step" /\ IsSome(hist.cpu.last_key)) =>
          /\ Family(hist.opcode) = 15
          /\ OpNN(hist.opcode) = 10

\* key 1 was down when the FX0A behind `V0 = 5` was stepped: it is awaited,
\* and program_counter is still on the FX0A
C27_Witness ==
    /\ WaitStep
    /\ hist.cpu.last_key = None /\ cpu.last_key = Some(1)
    /\ cpu.pc = START_PGM + 2 /\ cpu.v_reg[0] = 5
    /\ Parked(cpu)

\* the wait is over and the instruction behind it has been stepped, with
\* no key awaited
C27_WitnessAfter ==
    /\ Stepped /\ hist.opcode = 24581
    /\ hist2.opcode = 61450
    /\ hist.cpu.last_key = None /\ cpu.last_key = None
    /\ cpu.v_reg[0] = 5


(***************************************************************************)
(* What writes to the ram: programs that put index on the font and run one *)
(* instruction of each kind, a program that calls and returns, and one     *)
(* that calls itself until the stack reaches the font; stepped with a      *)
(* Screen, with one late update_timers somewhere in the run.               *)
(***************************************************************************)
\* one instruction of every arm of step, and four opcodes no arm matches
Instructions ==
    { << 0, 224 >>, << 18, 6 >>, << 48, 0 >>, << 64, 0 >>, << 80, 16 >>,
      << 96, 5 >>, << 112, 5 >>, << 144, 16 >>, << 163, 0 >>, << 178, 6 >>,
      << 192, 255 >>, << 208, 5 >>, << 224, 158 >>, << 224, 161 >>,
      << 240, 7 >>, << 240, 10 >>, << 240, 21 >>, << 240, 24 >>, << 240, 30 >>,
      << 240, 41 >>, << 240, 51 >>, << 241, 85 >>, << 241, 101 >>,
      << 0, 1 >>, << 128, 8 >>, << 224, 0 >>, << 240, 0 >> }
        \cup { << 128, 16 + n >> : n \in {0, 1, 2, 3, 4, 5, 6, 7, 14} }

WriteRoms ==
    { << 160, 80 >> \o i : i \in Instructions }
        \cup { << 34, 4, 0, 0, 0, 238 >>,     \* call 0x204; return
               << 34, 0 >> }                  \* call 0x200, again and again

LoadWrites == Load(WriteRoms)

\* a step of anything but a call
StepOther == ~IsCall(NextOpcode(cpu)) /\ StepSome

\* a step of a call, as long as the stack pointer is below MaxStack
CallDeeper ==
    /\ status = "running"
    /\ cpu.sp < MaxStack
    /\ \E opcode \in {NextOpcode(cpu)} :
          /\ IsCall(opcode)
          /\ \E r \in {step(cpu, screen, TRUE, 0, build.overflow_checks)} :
                /\ cpu' = r.cpu
                /\ screen' = r.screen
                /\ status' = IF r.ok THEN "running" ELSE "panicked"
                /\ hist' = Record("step", opcode, TRUE, r.ok)
                /\ calls' = IF r.ok THEN CallsAfter(calls, cpu, opcode) ELSE calls
    /\ hist2' = Brief(hist)
    /\ UNCHANGED << clock, build, nsteps, nupdates, frame >>

\* update_timers, 50 ms after the clock was last read
TickMuchLater == UpdateTimers /\ clock' = clock + 150

NextWrites == LoadWrites \/ StepOther \/ CallDeeper \/ TickMuchLater

SpecWrites == Init /\ [][NextWrites]_vars

\* the addresses the instruction that was stepped may write to
WriteSet ==
    IF IsCall(hist.opcode) THEN { hist.cpu.sp, hist.cpu.sp + 1 }
    ELSE IF Family(hist.opcode) = 15 /\ HNN = 51
    THEN hist.cpu.index .. hist.cpu.index + 2
    ELSE IF Family(hist.opcode) = 15 /\ HNN = 85
    THEN hist.cpu.index .. hist.cpu.index + HX
    ELSE {}

\* the addresses of the font table
FontArea == START_FONT .. START_FONT + 79

\* the bytes of the ram the last operation changed
Changed == { a \in 0 .. RAM_SIZE - 1 : cpu.ram[a] # hist.cpu.ram[a] }

\* C28: a completed step changes no byte of the ram outside the two bytes at
\* the stack pointer (2NNN), the three bytes at index (FX33) and the x + 1
\* bytes at index (FX55); a step of any other opcode, known or not, and an
\* update_timers change none; so the font table changes only under one of
\* these writes, and under a call only when the stack pointer has reached
\* 0x50, with 40 calls not yet returned from.
C28_RamWrites ==
    /\ Stepped =>
          /\ Changed \subseteq WriteSet
          /\ (Changed \cap FontArea # {}) => WriteSet \cap FontArea # {}
          /\ (Changed \cap FontArea # {} /\ IsCall(hist.opcode)) =>
                /\ hist.cpu.sp >= START_FONT
                /\ Len(hist.calls) >= 40
    /\ hist.op = "update_timers" => Changed = {}

\* F033 with index on the font: the first row of the glyph of 0 is gone
C28_Witness ==
    /\ Stepped /\ hist.opcode = 61491
    /\ hist.cpu.index = START_FONT
    /\ Changed = { START_FONT, START_FONT + 1, START_FONT + 2 }

\* the 41st nested call writes its return address over the glyph of 0
C28_WitnessDeep ==
    /\ Stepped /\ IsCall(hist.opcode)
    /\ hist.cpu.sp = 80 /\ Len(hist.calls) = 40
    /\ hist.cpu.ram[80] = 240 /\ cpu.ram[80] = 2 /\ cpu.ram[81] = 2

\* the 40th nested call writes right below the font
C28_WitnessBelow ==
    /\ Stepped /\ IsCall(hist.opcode)
    /\ hist.cpu.sp = 78 /\ Len(hist.calls) = 39
    /\ Changed \cap FontArea = {}
    /\ cpu.ram[79] = 2

\* a draw has changed no byte
C28_WitnessDraw == Stepped /\ Family(hist.opcode) = 13 /\ has_drawn(cpu) /\ Changed = {}

\* an update_timers that ticked has changed no byte
C28_WitnessTick ==
    /\ hist.op = "update_timers" /\ hist.cpu.time # cpu.time /\ Changed = {}

====
